---- MODULE Spec2Model ----
(***************************************************************************)
(* Resilience layer of backend/app/services/llm_service.py: the per        *)
(* provider CircuitBreaker, the health records, LLMService.generate_text    *)
(* with its retry loop and provider fallback chain, and the health checks   *)
(* and operator actions of LLMService.                                      *)
(*                                                                          *)
(* Time is a discrete clock `now` (datetime.utcnow()); every handler reads  *)
(* the clock once.  asyncio runs one coroutine at a time, so a handler is   *)
(* atomic between two awaits (the provider request, the backoff sleep and   *)
(* the gather of the health checks).                                        *)
(***************************************************************************)
EXTENDS Integers, Sequences, FiniteSets, TLC

\* ------------------------------------------------------------------ bounds
\* settings.circuit_breaker_failure_threshold (configurable, scaled down)
FailureThreshold == 2
\* settings.circuit_breaker_recovery_timeout, in clock ticks
RecoveryTimeout == 2
\* settings.circuit_breaker_half_open_max_calls
HalfOpenMaxCalls == 2
\* _cleanup_window(window_minutes), in clock ticks
WindowTicks == 3
\* the clock stops advancing here
MaxTime == 6
\* SpecCB: record_success/record_failure calls made on the breaker
MaxRequests == 5
\* settings.retry_max_attempts (RetryConfig.max_attempts)
RetryMaxAttempts == 1
\* Spec: generate_text calls made
MaxCalls == 3
\* Spec: the clock stops advancing here
MaxCallTime == 3
\* SpecConc: generate_text calls made
MaxConcCalls == 2
\* SpecSwitch: generate_text calls made, switch_provider calls made
MaxSwitchCalls == 2
MaxSwitches == 2
\* SpecCBOps: health checks and operator actions made, record_success and
\* record_failure calls made on the breakers
MaxOps == 2
MaxOpsRequests == 3
\* SpecCBOps: operator actions and recorded answers made together
MaxOpsSteps == 4
\* SpecReads: generate_text calls made, health reads made
MaxReadCalls == 2
MaxReads == 2
\* SpecAdmin: operator actions and health checks made, record_success and
\* record_failure calls made on a breaker
MaxAdminOps == 2
MaxAdminRequests == 2
\* SpecAdmin: generate_text takes an InvalidAPIKey answer of a provider
\* while the recovery_attempts of its health record are below this
MaxAuthFailures == 1
\* SpecBuild: generate_text calls made, operator actions made
MaxBuildCalls == 1
MaxBuildOps == 1
\* SpecBackoff: the largest attempt index
MaxAttempt == 7
\* SpecLive: generate_text calls made, switch_provider calls made
MaxLiveCalls == 2
MaxLiveSwitches == 1
\* RateLimiter(max_requests, time_window): requests per window, and the
\* window in seconds
max_requests == 2
time_window == 2
\* SpecLimiter: clock ticks in one second, the calls made on the limiter, and
\* the last tick of the clock (a window, one second more and one tick)
TicksPerSecond == 2
MaxLimiterCalls == 5
MaxLimiterTime == (time_window + 1) * TicksPerSecond + 1

\* --------------------------------------------------------------- constants
\* Optional[datetime] = None
NoTime == -1

\* ProviderConfig.max_retries
max_retries == 3

\* ProviderHealth.response_time_ms: Optional[float] = None
NoResponseTime == -1

\* RateLimiter.reset(user_id: Optional[int] = None)
NoUser == -1

\* settings.retry_base_delay and settings.retry_max_delay, in ms, and
\* settings.retry_backoff_multiplier
base_delay == 1000
max_delay == 60000
backoff_multiplier == 2

\* LLMProvider members given a usable API key, with their priorities
\* (_initialize_providers, provider_configs)
Providers == {"openai", "mistral"}

\* an LLMProvider member left without a usable API key: no breaker, no health
\* record, not in the chain
Unconfigured == {"kiwi"}

\* the providers an operator may name
Requested == Providers \cup Unconfigured

\* CircuitBreakerState
CLOSED == "closed"
OPEN == "open"
HALF_OPEN == "half_open"

\* ProviderStatus
HEALTHY == "healthy"
DEGRADED == "degraded"
FAILED == "failed"

VARIABLES
    now,             \* datetime.utcnow()
    circuit_breakers,\* LLMService.circuit_breakers: provider -> CircuitBreaker
    provider_health, \* LLMService.provider_health: provider -> ProviderHealth
    fallback_chain,  \* LLMService.fallback_chain
    calls,           \* the generate_text coroutines: call -> its locals
    ncalls,          \* generate_text calls started so far
    transient_calls, \* observation: consecutive generate_text calls in which
                     \* every attempt on the first provider of the chain
                     \* failed with an LLMError, counted from a Closed breaker
                     \* with failure_count 0; -1 when not in such a run
    last,            \* observation: the last call made on a breaker, its
                     \* result and the breaker as it was before the call
    last_record,     \* observation: the last record_success/record_failure
    streak,          \* observation: record_failure calls since the breaker
                     \* was Closed with failure_count 0, -1 once a success
                     \* was recorded outside that situation
    probes,          \* observation: record_success calls since the breaker
                     \* entered HalfOpen with nothing else recorded, else -1
    ops,             \* the health check and operator coroutines: their locals
    nops,            \* health checks and operator actions started so far
    admissions,      \* observation: can_execute() calls answered true since
                     \* the breaker entered HalfOpen, -1 when not HalfOpen
    reads,           \* observation: the health reads made in a row with
                     \* nothing else running, and what they reported
    last_op,         \* observation: the operator action made last with
                     \* nothing else running since it started, what it
                     \* returned, and the breakers and health records as
                     \* they were before it
    held,            \* the health records handed to the caller of the last
                     \* health check (references into provider_health), and
                     \* their values when they were handed
    build,           \* the settings LLMService() is constructed from (API
                     \* keys, primary provider), whether it was constructed,
                     \* and the chain it was constructed with
    backoff,         \* the retry configuration and arguments of a
                     \* _calculate_backoff_delay call, and the delay returned
    current_time,    \* time.time(), in ticks of 1/TicksPerSecond second
    user_requests,   \* RateLimiter.user_requests: user -> the timestamps of
                     \* the requests admitted, oldest first
    limiter_seen     \* observation: the requests of each user admitted
                     \* since the user was last reset, the users refused,
                     \* and the last call made on the limiter

vars == <<now, circuit_breakers, provider_health, fallback_chain,
          calls, ncalls, transient_calls, last, last_record, streak, probes,
          ops, nops, admissions, reads, last_op, held, build, backoff,
          current_time, user_requests, limiter_seen>>

\* the rate limiter of the router
limiter == <<current_time, user_requests, limiter_seen>>

\* the construction of the service and the backoff computation
setup == <<build, backoff>>

\* what the callers of the operator actions and health checks were handed
handed == <<last_op, held>>

\* the state of the health checks and operator actions
operator_side == <<ops, nops, admissions, reads>>

\* the observations of the calls made directly on a breaker
observed == <<last, last_record, streak, probes>>

\* ------------------------------------------------------------ CircuitBreaker

\* CircuitBreaker.__init__
CircuitBreaker ==
    [ state |-> CLOSED,
      failure_count |-> 0,
      success_count |-> 0,
      last_failure_time |-> NoTime,
      last_success_time |-> NoTime,
      half_open_calls |-> 0,
      consecutive_failures |-> 0,
      total_requests |-> 0,
      failure_rate_window |-> << >> ]

\* CircuitBreaker._should_attempt_reset
_should_attempt_reset_ge(b, t) ==
    IF b.last_failure_time = NoTime THEN TRUE
    ELSE t - b.last_failure_time >= RecoveryTimeout

_should_attempt_reset(b, t) ==
    IF b.last_failure_time = NoTime THEN TRUE
    ELSE t - b.last_failure_time > RecoveryTimeout

\* CircuitBreaker.can_execute: the breaker after the call and the value returned
\* a can_execute that counts the probe it admits in HalfOpen
can_execute_counts_probe(b, t) ==
    IF b.state = CLOSED THEN [b |-> b, result |-> TRUE]
    ELSE IF b.state = OPEN THEN
        IF _should_attempt_reset(b, t)
        THEN [b |-> [b EXCEPT !.state = HALF_OPEN, !.half_open_calls = 0],
              result |-> TRUE]
        ELSE [b |-> b, result |-> FALSE]
    ELSE IF b.half_open_calls < HalfOpenMaxCalls
         THEN [b |-> [b EXCEPT !.half_open_calls = @ + 1], result |-> TRUE]
    ELSE [b |-> b, result |-> FALSE]

\* a can_execute that refuses while Open, whatever the time elapsed
can_execute_refuses_open(b, t) ==
    IF b.state = CLOSED THEN [b |-> b, result |-> TRUE]
    ELSE IF b.state = HALF_OPEN THEN
        [b |-> b, result |-> b.half_open_calls < HalfOpenMaxCalls]
    ELSE [b |-> b, result |-> FALSE]

can_execute(b, t) ==
    IF b.state = CLOSED THEN [b |-> b, result |-> TRUE]
    ELSE IF b.state = OPEN THEN
        IF _should_attempt_reset(b, t)
        THEN [b |-> [b EXCEPT !.state = HALF_OPEN, !.half_open_calls = 0],
              result |-> TRUE]
        ELSE [b |-> b, result |-> FALSE]
    ELSE IF b.state = HALF_OPEN THEN
        [b |-> b, result |-> b.half_open_calls < HalfOpenMaxCalls]
    ELSE [b |-> b, result |-> FALSE]

\* CircuitBreaker._trip
_trip(b, t) == [b EXCEPT !.state = OPEN, !.last_failure_time = t]

\* CircuitBreaker._reset
_reset_keep_failures(b) ==
    [b EXCEPT !.state = CLOSED, !.half_open_calls = 0]

\* a _reset that also clears the lifetime counters
_reset_clears_counts(b) ==
    [b EXCEPT !.state = CLOSED,
              !.failure_count = 0,
              !.half_open_calls = 0,
              !.consecutive_failures = 0,
              !.success_count = 0,
              !.total_requests = 0]

_reset(b) ==
    [b EXCEPT !.state = CLOSED,
              !.failure_count = 0,
              !.half_open_calls = 0,
              !.consecutive_failures = 0]

\* CircuitBreaker._cleanup_window: keep the entries newer than the cutoff
_cleanup_window(b, t) ==
    [b EXCEPT !.failure_rate_window =
        SelectSeq(b.failure_rate_window, LAMBDA e : e[1] > t - WindowTicks)]

\* CircuitBreaker.record_success
\* a record_success that closes an Open breaker
record_success_closes_open(b, t) ==
    LET b1 == [b EXCEPT !.success_count = @ + 1,
                        !.total_requests = @ + 1,
                        !.consecutive_failures = 0,
                        !.last_success_time = t,
                        !.failure_rate_window = Append(@, <<t, FALSE>>)]
        b2 == _cleanup_window(b1, t)
    IN  IF b2.state = HALF_OPEN THEN
            LET b3 == [b2 EXCEPT !.half_open_calls = @ + 1]
            IN  IF b3.half_open_calls >= HalfOpenMaxCalls THEN _reset(b3) ELSE b3
        ELSE IF b2.state = CLOSED THEN
            IF b2.failure_count > 0 THEN [b2 EXCEPT !.failure_count = 0] ELSE b2
        ELSE _reset(b2)

\* a record_success that never closes a HalfOpen breaker
record_success_stays_half_open(b, t) ==
    LET b1 == [b EXCEPT !.success_count = @ + 1,
                        !.total_requests = @ + 1,
                        !.consecutive_failures = 0,
                        !.last_success_time = t,
                        !.failure_rate_window = Append(@, <<t, FALSE>>)]
        b2 == _cleanup_window(b1, t)
    IN  IF b2.state = HALF_OPEN
        THEN [b2 EXCEPT !.half_open_calls = @ + 1]
        ELSE IF b2.state = CLOSED /\ b2.failure_count > 0
             THEN [b2 EXCEPT !.failure_count = 0]
        ELSE b2

record_success(b, t) ==
    LET b1 == [b EXCEPT !.success_count = @ + 1,
                        !.total_requests = @ + 1,
                        !.consecutive_failures = 0,
                        !.last_success_time = t,
                        !.failure_rate_window = Append(@, <<t, FALSE>>)]
        b2 == _cleanup_window(b1, t)
    IN  IF b2.state = HALF_OPEN THEN
            LET b3 == [b2 EXCEPT !.half_open_calls = @ + 1]
            IN  IF b3.half_open_calls >= HalfOpenMaxCalls THEN _reset(b3) ELSE b3
        ELSE IF b2.state = CLOSED THEN
            IF b2.failure_count > 0 THEN [b2 EXCEPT !.failure_count = 0] ELSE b2
        ELSE b2

\* CircuitBreaker.record_failure
record_failure_gt(b, t) ==
    LET b1 == [b EXCEPT !.failure_count = @ + 1,
                        !.consecutive_failures = @ + 1,
                        !.total_requests = @ + 1,
                        !.last_failure_time = t,
                        !.failure_rate_window = Append(@, <<t, TRUE>>)]
        b2 == _cleanup_window(b1, t)
    IN  IF b2.state = HALF_OPEN THEN _trip(b2, t)
        ELSE IF b2.state = CLOSED /\ b2.failure_count > FailureThreshold
             THEN _trip(b2, t)
        ELSE b2

record_failure_half_open_stays(b, t) ==
    LET b1 == [b EXCEPT !.failure_count = @ + 1,
                        !.consecutive_failures = @ + 1,
                        !.total_requests = @ + 1,
                        !.last_failure_time = t,
                        !.failure_rate_window = Append(@, <<t, TRUE>>)]
        b2 == _cleanup_window(b1, t)
    IN  IF b2.state # HALF_OPEN /\ b2.failure_count >= FailureThreshold
        THEN _trip(b2, t)
        ELSE b2

\* a record_failure that trips a Closed breaker on the failures held in the
\* sliding window
record_failure_trips_on_window(b, t) ==
    LET b1 == [b EXCEPT !.failure_count = @ + 1,
                        !.consecutive_failures = @ + 1,
                        !.total_requests = @ + 1,
                        !.last_failure_time = t,
                        !.failure_rate_window = Append(@, <<t, TRUE>>)]
        b2 == _cleanup_window(b1, t)
        w == b2.failure_rate_window
    IN  IF b2.state = HALF_OPEN THEN _trip(b2, t)
        ELSE IF b2.state = CLOSED
                /\ Cardinality({i \in 1..Len(w) : w[i][2]}) >= FailureThreshold
             THEN _trip(b2, t)
        ELSE b2

\* a record_failure that is not atomic: the counts it writes back were read
\* before another failure recorded at the same instant, whose increments of
\* consecutive_failures and total_requests are lost
record_failure_lost_update(b, t) ==
    LET b1 == [b EXCEPT !.failure_count = @ + 1,
                        !.consecutive_failures =
                            IF b.last_failure_time = t THEN @ ELSE @ + 1,
                        !.total_requests =
                            IF b.last_failure_time = t THEN @ ELSE @ + 1,
                        !.last_failure_time = t,
                        !.failure_rate_window = Append(@, <<t, TRUE>>)]
        b2 == _cleanup_window(b1, t)
    IN  IF b2.state = HALF_OPEN THEN _trip(b2, t)
        ELSE IF b2.state = CLOSED /\ b2.failure_count >= FailureThreshold
             THEN _trip(b2, t)
        ELSE b2

record_failure(b, t) ==
    LET b1 == [b EXCEPT !.failure_count = @ + 1,
                        !.consecutive_failures = @ + 1,
                        !.total_requests = @ + 1,
                        !.last_failure_time = t,
                        !.failure_rate_window = Append(@, <<t, TRUE>>)]
        b2 == _cleanup_window(b1, t)
    IN  IF b2.state = HALF_OPEN THEN _trip(b2, t)
        ELSE IF b2.state = CLOSED /\ b2.failure_count >= FailureThreshold
             THEN _trip(b2, t)
        ELSE b2

\* greatest common divisor, to compare failure rates as fractions
RECURSIVE Gcd(_, _)
Gcd(a, b) == IF b = 0 THEN a ELSE Gcd(b, a % b)

\* CircuitBreaker.get_failure_rate: failures / total as a reduced fraction
get_failure_rate(b) ==
    LET w == b.failure_rate_window
        failures == Cardinality({i \in 1..Len(w) : w[i][2]})
        total == Len(w)
    IN  IF total = 0 THEN <<0, 1>>
        ELSE LET g == Gcd(failures, total) IN <<failures \div g, total \div g>>

\* ------------------------------------------------------------- ProviderHealth

\* LLMService.__init__: provider_health entry
ProviderHealth(t) ==
    [ status |-> HEALTHY,
      last_check |-> t,
      response_time_ms |-> NoResponseTime,
      error_count |-> 0,
      success_count |-> 0,
      consecutive_failures |-> 0,
      failure_rate |-> <<0, 1>>,
      circuit_breaker_state |-> CLOSED,
      last_error |-> "none",
      last_success |-> NoTime,
      recovery_attempts |-> 0,
      is_degraded |-> FALSE,
      degradation_reason |-> "none" ]

\* ProviderConfig.priority as set by _initialize_providers
priority(p) ==
    CASE p = "openai" -> 1
      [] p = "mistral" -> 2
      [] p = "anthropic" -> 3
      [] p = "kiwi" -> 4
      [] p = "together" -> 5
      [] p = "huggingface" -> 6

\* LLMService._create_fallback_chain: sorted by priority, primary moved first
RECURSIVE SortedByPriority(_)
SortedByPriority(S) ==
    IF S = {} THEN << >>
    ELSE LET m == CHOOSE x \in S : \A y \in S : priority(x) <= priority(y)
         IN  <<m>> \o SortedByPriority(S \ {m})

\* a _create_fallback_chain that leaves the primary provider where its
\* priority puts it
_create_fallback_chain_by_priority(providers, primary) ==
    SortedByPriority(providers)

_create_fallback_chain(providers, primary) ==
    LET chain == SortedByPriority(providers)
    IN  IF primary \in providers
        THEN <<primary>> \o SelectSeq(chain, LAMBDA p : p # primary)
        ELSE chain

\* settings.llm_provider
primary_provider == "openai"

\* an API key of the settings: None, or a string, given as the sequence of
\* its parts: " " is white space, "your_" those five characters, "k" any
\* other characters
NoKey == [none |-> TRUE, text |-> << >>]

Key(text) == [none |-> FALSE, text |-> text]

KeyKinds ==
    {NoKey, Key(<< >>), Key(<<" ">>), Key(<<"your_", "k">>), Key(<<"k">>)}

\* str.strip()
RECURSIVE lstrip(_)
lstrip(text) ==
    IF text # << >> /\ Head(text) = " " THEN lstrip(Tail(text)) ELSE text

RECURSIVE rstrip(_)
rstrip(text) ==
    IF text # << >> /\ text[Len(text)] = " "
    THEN rstrip(SubSeq(text, 1, Len(text) - 1))
    ELSE text

strip(text) == rstrip(lstrip(text))

\* _initialize_providers: `api_key and api_key.strip() and not
\* api_key.startswith("your_")`
usable_key_unstripped(key) ==
    /\ ~key.none
    /\ key.text # << >>
    /\ key.text[1] # "your_"

usable_key(key) ==
    /\ ~key.none
    /\ key.text # << >>
    /\ strip(key.text) # << >>
    /\ key.text[1] # "your_"

\* _initialize_providers: the providers given a ProviderConfig; the
\* constructor raises when there is none
_initialize_providers(keys) == {p \in DOMAIN keys : usable_key(keys[p])}

\* the primary provider asked for: an LLMProvider value or any other string
Primaries == Requested \cup {"azure"}

\* the service constructed from the keys of the providers in Providers
Constructed ==
    [ status |-> "ready",
      keys |-> [p \in Requested |->
                  IF p \in Providers THEN Key(<<"k">>) ELSE NoKey],
      primary |-> primary_provider,
      chain0 |-> _create_fallback_chain(Providers, primary_provider) ]

\* ------------------------------------------------------------------- state

NoCall == [op |-> "none", provider |-> "none", result |-> FALSE, time |-> 0,
           pre |-> CircuitBreaker]

\* the generate_text coroutines
Calls == {"c1", "c2"}

NoError == [kind |-> "none", provider |-> "none"]

\* a coroutine that has not been called; the fields after `response` are
\* observations of the call, not locals of generate_text: when it started,
\* the providers refused, the requests sent, the answer to the latest one, the
\* providers that answered InvalidAPIKey, the sleeps, the calls made on the
\* breakers, and the breakers and health records as they were at the start
IdleCall ==
    [ pc |-> "idle",
      it |-> 0,
      provider |-> "none",
      attempt |-> 0,
      attempted_providers |-> << >>,
      last_error |-> NoError,
      response |-> "none",
      started |-> 0,
      transient_calls0 |-> 0,
      skipped |-> << >>,
      invoked |-> << >>,
      last_answer |-> "none",
      auth_answered |-> {},
      sleeps |-> << >>,
      records |-> << >>,
      cancel_requested |-> FALSE,
      breakers0 |-> [p \in Providers |-> CircuitBreaker],
      health0 |-> [p \in Providers |-> ProviderHealth(0)] ]

\* the health check and operator coroutines
Operators == {"o1"}

\* a coroutine that is not running: `kind` is the method called, `checked` the
\* providers of a health check, `pending` the providers whose validate_api_key
\* request is awaited, `original_state` the local of force_recovery_attempt,
\* `result` what the method returned (kept once it is done)
IdleOp ==
    [ pc |-> "idle",
      kind |-> "none",
      provider |-> "none",
      checked |-> {},
      pending |-> {},
      original_state |-> "none",
      result |-> "none" ]

\* no health read made yet, or something else ran since the last one
NoReads == [runs |-> -1, cbs |-> << >>, prev |-> << >>, cur |-> << >>]

\* no operator action made, or something else ran since
NoOp ==
    [ kind |-> "none",
      provider |-> "none",
      done |-> FALSE,
      returned |-> FALSE,
      available |-> << >>,
      time |-> 0,
      cbs0 |-> [p \in Providers |-> CircuitBreaker],
      hs0 |-> [p \in Providers |-> ProviderHealth(0)] ]

\* no health record handed to a caller
NoHeld == [refs |-> {}, seen |-> << >>]

\* no _calculate_backoff_delay call made
NoBackoff ==
    [ retry_config |-> [base_delay |-> base_delay, max_delay |-> max_delay,
                        backoff_multiplier |-> backoff_multiplier],
      attempt |-> 0,
      jitter |-> 0,
      delay |-> -1 ]

\* the users of the router (User.id)
Users == {1, 2}

\* no call made on the limiter
NoLimiterCall ==
    [ op |-> "none",
      user |-> NoUser,
      time |-> 0,
      result |-> FALSE,
      value |-> 0,
      before |-> [u \in Users |-> << >>],
      admitted_before |-> [u \in Users |-> << >>] ]

\* RateLimiter.__init__: no request of any user
RateLimiter ==
    /\ current_time = 0
    /\ user_requests = [u \in Users |-> << >>]
    /\ limiter_seen = [ admitted |-> [u \in Users |-> << >>],
                        refused |-> {},
                        ncalls |-> 0,
                        last |-> NoLimiterCall ]

\* nothing is running and nothing was observed
Quiet ==
    /\ calls = [c \in Calls |-> IdleCall]
    /\ ncalls = 0
    /\ transient_calls = 0
    /\ last = NoCall
    /\ last_record = NoCall
    /\ streak = [p \in Providers |-> 0]
    /\ probes = [p \in Providers |-> -1]
    /\ ops = [o \in Operators |-> IdleOp]
    /\ nops = 0
    /\ admissions = [p \in Providers |-> -1]
    /\ reads = NoReads
    /\ last_op = NoOp
    /\ held = NoHeld

\* LLMService.__init__ with the API keys of the providers in Providers set
Init ==
    /\ now = 0
    /\ circuit_breakers = [p \in Providers |-> CircuitBreaker]
    /\ provider_health = [p \in Providers |-> ProviderHealth(0)]
    /\ fallback_chain = _create_fallback_chain(Providers, primary_provider)
    /\ Quiet
    /\ RateLimiter
    /\ build = Constructed
    /\ backoff = NoBackoff

\* the clock advances
Tick ==
    /\ now < MaxTime
    /\ now' = now + 1
    /\ UNCHANGED <<circuit_breakers, provider_health, fallback_chain,
                   calls, ncalls, transient_calls, observed>>

\* the streak observation after a call that left breaker b
StreakAfter(old, b, op) ==
    IF b.state = CLOSED /\ b.failure_count = 0 THEN 0
    ELSE IF op = "record_failure" THEN
        (IF old < 0 THEN -1 ELSE IF old > FailureThreshold THEN old ELSE old + 1)
    ELSE IF op = "record_success" THEN -1
    ELSE old

\* the probes observation after a call that took breaker a to breaker b
ProbesAfter(old, a, b, op) ==
    IF op = "can_execute" THEN
        (IF a.state = OPEN /\ b.state = HALF_OPEN THEN 0 ELSE old)
    ELSE IF op = "record_success" /\ old >= 0 /\ old < HalfOpenMaxCalls
         THEN old + 1
    ELSE -1

\* ---------------------------------------------- the breaker driven directly

\* the breaker the direct calls are made on
Driven == fallback_chain[1]

CanExecute(p) ==
    LET r == can_execute(circuit_breakers[p], now)
    IN  /\ circuit_breakers' = [circuit_breakers EXCEPT ![p] = r.b]
        /\ last' = [op |-> "can_execute", provider |-> p, result |-> r.result,
                    time |-> now, pre |-> circuit_breakers[p]]
        /\ streak' = [streak EXCEPT ![p] = StreakAfter(@, r.b, "can_execute")]
        /\ probes' = [probes EXCEPT
                        ![p] = ProbesAfter(@, circuit_breakers[p], r.b, "can_execute")]
        /\ UNCHANGED <<now, provider_health, fallback_chain, calls, ncalls,
                       transient_calls, last_record>>

RecordSuccess(p) ==
    LET b == record_success(circuit_breakers[p], now)
    IN  /\ circuit_breakers[p].total_requests < MaxRequests
        /\ circuit_breakers' = [circuit_breakers EXCEPT ![p] = b]
        /\ last' = [op |-> "record_success", provider |-> p, result |-> TRUE,
                    time |-> now, pre |-> circuit_breakers[p]]
        /\ last_record' = last'
        /\ streak' = [streak EXCEPT ![p] = StreakAfter(@, b, "record_success")]
        /\ probes' = [probes EXCEPT
                        ![p] = ProbesAfter(@, circuit_breakers[p], b, "record_success")]
        /\ UNCHANGED <<now, provider_health, fallback_chain, calls, ncalls,
                       transient_calls>>

RecordFailure(p) ==
    LET b == record_failure(circuit_breakers[p], now)
    IN  /\ circuit_breakers[p].total_requests < MaxRequests
        /\ circuit_breakers' = [circuit_breakers EXCEPT ![p] = b]
        /\ last' = [op |-> "record_failure", provider |-> p, result |-> TRUE,
                    time |-> now, pre |-> circuit_breakers[p]]
        /\ last_record' = last'
        /\ streak' = [streak EXCEPT ![p] = StreakAfter(@, b, "record_failure")]
        /\ probes' = [probes EXCEPT
                        ![p] = ProbesAfter(@, circuit_breakers[p], b, "record_failure")]
        /\ UNCHANGED <<now, provider_health, fallback_chain, calls, ncalls,
                       transient_calls>>

\* the admissions observation after a step in which can_execute() was
\* answered true for the providers in S
AdmissionsAfter(S) ==
    [p \in Providers |->
        LET n == IF p \in S THEN 1 ELSE 0
        IN  IF circuit_breakers'[p].state # HALF_OPEN THEN -1
            ELSE IF circuit_breakers[p].state # HALF_OPEN THEN n
            ELSE IF admissions[p] + n > HalfOpenMaxCalls
                 THEN HalfOpenMaxCalls + 1
            ELSE admissions[p] + n]

\* can_execute(), record_success() and record_failure() called on one
\* CircuitBreaker object, in any order: the breaker alone, no service
\* around it
BreakerStep(p) ==
    \/ CanExecute(p) /\ admissions' = AdmissionsAfter(IF last'.result THEN {p}
                                                       ELSE {})
    \/ RecordSuccess(p) /\ admissions' = AdmissionsAfter({})
    \/ RecordFailure(p) /\ admissions' = AdmissionsAfter({})

NextCB ==
    /\ \/ Tick /\ UNCHANGED admissions
       \/ BreakerStep(Driven)
    /\ UNCHANGED <<ops, nops, reads>>
    /\ UNCHANGED handed
    /\ UNCHANGED setup
    /\ UNCHANGED limiter

SpecCB == Init /\ [][NextCB]_vars

\* ------------------------------------------------- LLMService.generate_text

\* generate_text, success branch: the provider's health entry
health_on_success(h, b, t) ==
    [h EXCEPT !.status = HEALTHY,
              !.error_count = 0,
              !.success_count = b.success_count,
              !.consecutive_failures = 0,
              !.failure_rate = get_failure_rate(b),
              !.last_success = t,
              !.is_degraded = FALSE,
              !.degradation_reason = "none"]

\* generate_text, except InvalidAPIKey: the provider's health entry
health_on_invalid_api_key(h, e) ==
    [h EXCEPT !.status = FAILED,
              !.last_error = e,
              !.error_count = @ + 1,
              !.recovery_attempts = @ + 1,
              !.is_degraded = TRUE,
              !.degradation_reason = "Authentication failure"]

\* generate_text, except Exception: the provider's health entry
health_on_failure(h, b, e) ==
    [h EXCEPT !.status = FAILED,
              !.error_count = @ + 1,
              !.consecutive_failures = b.consecutive_failures,
              !.failure_rate = get_failure_rate(b),
              !.last_error = e,
              !.circuit_breaker_state = b.state,
              !.recovery_attempts = @ + 1,
              !.is_degraded = TRUE,
              !.degradation_reason = "Request failure"]

\* x to the power n
RECURSIVE Power(_, _)
Power(x, n) == IF n = 0 THEN 1 ELSE x * Power(x, n - 1)

\* a backoff delay whose cap is applied after the jitter
backoff_delay_capped_last(retry_config, attempt, jitter) ==
    LET raw == retry_config.base_delay
                    * Power(retry_config.backoff_multiplier, attempt)
        delay == raw + (jitter * raw) \div 100
    IN  IF delay < retry_config.max_delay THEN delay
        ELSE retry_config.max_delay

\* LLMService._calculate_backoff_delay under any RetryConfig, in ms; jitter
\* is the percentage random.uniform(0.1, 0.3) drew, 0 with jitter off
backoff_delay(retry_config, attempt, jitter) ==
    LET raw == retry_config.base_delay
                    * Power(retry_config.backoff_multiplier, attempt)
        delay == IF raw < retry_config.max_delay THEN raw
                 ELSE retry_config.max_delay
    IN  delay + (jitter * delay) \div 100

\* LLMService._calculate_backoff_delay under settings.retry_*
_calculate_backoff_delay(attempt, jitter) ==
    backoff_delay(NoBackoff.retry_config, attempt, jitter)

\* generate_text: max_retries = min(provider_config.max_retries,
\* self.retry_config.max_attempts)
retry_limit ==
    IF max_retries <= RetryMaxAttempts THEN max_retries ELSE RetryMaxAttempts

\* generate_text: the head of the loop over the fallback chain.  The list
\* iterator stands after `it` elements; every provider whose breaker refuses is
\* passed over; the result is the first provider admitted (or "none" at the end
\* of the chain), the breakers after the can_execute calls made, and the
\* providers passed over.
next_provider_invokes_refused(cbs, chain, it, t, skipped) ==
    IF it >= Len(chain)
    THEN [cbs |-> cbs, it |-> it, provider |-> "none", skipped |-> skipped]
    ELSE LET p == chain[it + 1]
             r == can_execute(cbs[p], t)
         IN  [cbs |-> [cbs EXCEPT ![p] = r.b], it |-> it + 1, provider |-> p,
              skipped |-> IF r.result THEN skipped ELSE Append(skipped, p)]

RECURSIVE next_provider(_, _, _, _, _)
next_provider(cbs, chain, it, t, skipped) ==
    IF it >= Len(chain)
    THEN [cbs |-> cbs, it |-> it, provider |-> "none", skipped |-> skipped]
    ELSE LET p == chain[it + 1]
             r == can_execute(cbs[p], t)
             cbs1 == [cbs EXCEPT ![p] = r.b]
         IN  IF r.result
             THEN [cbs |-> cbs1, it |-> it + 1, provider |-> p,
                   skipped |-> skipped]
             ELSE next_provider(cbs1, chain, it + 1, t, Append(skipped, p))

\* generate_text from the head of the loop to the next await: the first
\* request to the next admitted provider, or the aggregate LLMError
to_next_provider_from_head(call, cbs, chain, t) ==
    LET n == next_provider(cbs, chain, 0, t, call.skipped)
    IN  IF n.provider = "none"
        THEN [cbs |-> n.cbs,
              call |-> [call EXCEPT !.pc = "raised", !.it = n.it,
                                    !.provider = "none",
                                    !.skipped = n.skipped]]
        ELSE [cbs |-> n.cbs,
              call |-> [call EXCEPT !.pc = "request", !.it = n.it,
                                    !.provider = n.provider,
                                    !.attempt = 0,
                                    !.attempted_providers = Append(@, n.provider),
                                    !.skipped = n.skipped,
                                    !.invoked = Append(@, n.provider)]]

to_next_provider(call, cbs, chain, t) ==
    LET n == next_provider(cbs, chain, call.it, t, call.skipped)
    IN  IF n.provider = "none"
        THEN [cbs |-> n.cbs,
              call |-> [call EXCEPT !.pc = "raised", !.it = n.it,
                                    !.provider = "none",
                                    !.skipped = n.skipped]]
        ELSE [cbs |-> n.cbs,
              call |-> [call EXCEPT !.pc = "request", !.it = n.it,
                                    !.provider = n.provider,
                                    !.attempt = 0,
                                    !.attempted_providers = Append(@, n.provider),
                                    !.skipped = n.skipped,
                                    !.invoked = Append(@, n.provider)]]

\* the transient_calls observation after the call is done with its provider
\* (kind is the outcome of the last attempt, cbs the breakers afterwards)
TransientCallsAfter(call, kind, cbs) ==
    LET A == fallback_chain[1]
    IN  IF call.provider # A THEN transient_calls
        ELSE IF /\ kind = "transient"
                /\ A \notin call.auth_answered
                /\ transient_calls >= 0
                /\ transient_calls < FailureThreshold
             THEN transient_calls + 1
        ELSE IF cbs[A].state = CLOSED /\ cbs[A].failure_count = 0 THEN 0
        ELSE -1

\* generate_text is called: up to the first await
generate_text_start(c) ==
    /\ calls[c].pc \in {"idle", "returned", "raised", "cancelled"}
    /\ LET fresh == [IdleCall EXCEPT !.started = now,
                                     !.transient_calls0 = transient_calls,
                                     !.breakers0 = circuit_breakers,
                                     !.health0 = provider_health]
           n == to_next_provider(fresh, circuit_breakers, fallback_chain, now)
       IN  /\ calls' = [calls EXCEPT ![c] = n.call]
           /\ circuit_breakers' = n.cbs
    /\ ncalls' = ncalls + 1
    /\ UNCHANGED <<now, provider_health, fallback_chain, transient_calls,
                   observed>>

\* await self._make_provider_request(...) returns a response
provider_success_keeps_going(c) ==
    /\ calls[c].pc = "request"
    /\ LET p == calls[c].provider
           b == record_success(circuit_breakers[p], now)
           cbs1 == [circuit_breakers EXCEPT ![p] = b]
           call1 == [calls[c] EXCEPT
                          !.response = p,
                          !.last_answer = "ok",
                          !.records = Append(@, <<p, "record_success">>)]
           n == to_next_provider(call1, cbs1, fallback_chain, now)
       IN  /\ circuit_breakers' = n.cbs
           /\ provider_health' = [provider_health EXCEPT
                                    ![p] = health_on_success(@, b, now)]
           /\ calls' = [calls EXCEPT ![c] = n.call]
    /\ transient_calls' = TransientCallsAfter(calls[c], "ok", circuit_breakers')
    /\ UNCHANGED <<now, fallback_chain, ncalls, observed>>

provider_success(c) ==
    /\ calls[c].pc = "request"
    /\ LET p == calls[c].provider
           b == record_success(circuit_breakers[p], now)
       IN  /\ circuit_breakers' = [circuit_breakers EXCEPT ![p] = b]
           /\ provider_health' = [provider_health EXCEPT
                                    ![p] = health_on_success(@, b, now)]
           /\ calls' = [calls EXCEPT
                          ![c].pc = "returned",
                          ![c].response = p,
                          ![c].last_answer = "ok",
                          ![c].records = Append(@, <<p, "record_success">>)]
    /\ transient_calls' = TransientCallsAfter(calls[c], "ok", circuit_breakers')
    /\ UNCHANGED <<now, fallback_chain, ncalls, observed>>

\* the attempt failed with attempts left: asyncio.sleep(wait_time) is awaited
retry_after_error(call, kind) ==
    [call EXCEPT !.pc = "sleep",
                 !.last_answer = kind,
                 !.auth_answered = IF kind = "auth" THEN @ \cup {call.provider}
                                   ELSE @,
                 !.sleeps = Append(@, <<call.provider, call.attempt>>)]

\* the last attempt failed: the error is raised to the handlers of the
\* provider loop, and the loop goes on
give_up_raises_auth(call, kind, cbs, hs, chain, t) ==
    LET p == call.provider
        e == [kind |-> kind, provider |-> p]
    IN  IF kind = "auth"
        THEN [cbs |-> cbs,
              health |-> [hs EXCEPT ![p] = health_on_invalid_api_key(@, e)],
              call |-> [call EXCEPT !.pc = "raised",
                                    !.last_answer = kind,
                                    !.auth_answered = @ \cup {p},
                                    !.last_error = e]]
        ELSE LET b == record_failure(cbs[p], t)
                 cbs1 == [cbs EXCEPT ![p] = b]
                 hs1 == [hs EXCEPT ![p] = health_on_failure(@, b, e)]
                 call1 == [call EXCEPT
                             !.last_answer = kind,
                             !.last_error = e,
                             !.records = Append(@, <<p, "record_failure">>)]
                 n == to_next_provider(call1, cbs1, chain, t)
             IN  [cbs |-> n.cbs, health |-> hs1, call |-> n.call]

give_up(call, kind, cbs, hs, chain, t) ==
    LET p == call.provider
        e == [kind |-> kind, provider |-> p]
    IN  IF kind = "auth"
        THEN \* except InvalidAPIKey
             LET hs1 == [hs EXCEPT ![p] = health_on_invalid_api_key(@, e)]
                 call1 == [call EXCEPT !.last_answer = kind,
                                       !.auth_answered = @ \cup {p},
                                       !.last_error = e]
                 n == to_next_provider(call1, cbs, chain, t)
             IN  [cbs |-> n.cbs, health |-> hs1, call |-> n.call]
        ELSE \* except Exception
             LET b == record_failure(cbs[p], t)
                 cbs1 == [cbs EXCEPT ![p] = b]
                 hs1 == [hs EXCEPT ![p] = health_on_failure(@, b, e)]
                 call1 == [call EXCEPT
                             !.last_answer = kind,
                             !.last_error = e,
                             !.records = Append(@, <<p, "record_failure">>)]
                 n == to_next_provider(call1, cbs1, chain, t)
             IN  [cbs |-> n.cbs, health |-> hs1, call |-> n.call]

\* a retry loop that sends the request again at once, whatever the number of
\* attempts made
provider_error_retries_forever(c, kind) ==
    /\ calls[c].pc = "request"
    /\ calls' = [calls EXCEPT ![c].last_answer = kind]
    /\ UNCHANGED <<now, circuit_breakers, provider_health, fallback_chain,
                   ncalls, transient_calls, observed>>

\* await self._make_provider_request(...) raises InvalidAPIKey (kind "auth")
\* or LLMError (kind "transient")
provider_error(c, kind) ==
    /\ calls[c].pc = "request"
    /\ IF calls[c].attempt < retry_limit
       THEN /\ calls' = [calls EXCEPT ![c] = retry_after_error(@, kind)]
            /\ UNCHANGED <<circuit_breakers, provider_health, transient_calls>>
       ELSE LET g == give_up(calls[c], kind, circuit_breakers,
                             provider_health, fallback_chain, now)
            IN  /\ calls' = [calls EXCEPT ![c] = g.call]
                /\ circuit_breakers' = g.cbs
                /\ provider_health' = g.health
                /\ transient_calls' = TransientCallsAfter(calls[c], kind, g.cbs)
    /\ UNCHANGED <<now, fallback_chain, ncalls, observed>>

\* asyncio.sleep(wait_time) returns: the next attempt on the same provider
backoff_elapsed(c) ==
    /\ calls[c].pc = "sleep"
    /\ calls' = [calls EXCEPT ![c].pc = "request",
                              ![c].attempt = @ + 1,
                              ![c].invoked = Append(@, calls[c].provider)]
    /\ UNCHANGED <<now, circuit_breakers, provider_health, fallback_chain,
                   ncalls, transient_calls, observed>>

\* one caller making one generate_text call after the other
Next ==
    /\ \/ (now < MaxCallTime /\ Tick)
       \/ (ncalls < MaxCalls /\ generate_text_start("c1"))
       \/ provider_success("c1")
       \/ provider_error("c1", "transient")
       \/ provider_error("c1", "auth")
       \/ backoff_elapsed("c1")
    /\ UNCHANGED operator_side
    /\ UNCHANGED handed
    /\ UNCHANGED setup
    /\ UNCHANGED limiter

Spec == Init /\ [][Next]_vars

\* ------------------------------------- health checks and operator actions

\* the outcomes of a provider request and the times, in ms, a validation
\* request can take
Outcomes == {"ok", "auth", "transient"}
ResponseTimes == {100, 11000}

\* validate_api_key, the request succeeded: the provider's health entry
health_on_validated(h, b, t, rt) ==
    [h EXCEPT !.status = HEALTHY,
              !.last_check = t,
              !.last_success = t,
              !.response_time_ms = rt,
              !.last_error = "none",
              !.success_count = b.success_count,
              !.consecutive_failures = b.consecutive_failures,
              !.failure_rate = get_failure_rate(b),
              !.circuit_breaker_state = b.state,
              !.is_degraded = (rt > 5000),
              !.degradation_reason = IF rt > 5000 THEN "Slow response time"
                                     ELSE "none"]

\* validate_api_key, except Exception: the provider's health entry
health_on_validation_failed(h, b, t, e) ==
    [h EXCEPT !.status = FAILED,
              !.last_check = t,
              !.last_error = e,
              !.error_count = @ + 1,
              !.consecutive_failures = b.consecutive_failures,
              !.failure_rate = get_failure_rate(b),
              !.circuit_breaker_state = b.state,
              !.recovery_attempts = @ + 1]

\* validate_api_key after its request was answered: the breakers (left alone)
\* and the health records, and the value returned
validate_api_key_records(cbs, hs, p, outcome, t, rt) ==
    IF outcome = "ok"
    THEN LET b == record_success(cbs[p], t)
         IN  [cbs |-> [cbs EXCEPT ![p] = b],
              health |-> [hs EXCEPT ![p] = health_on_validated(@, b, t, rt)],
              result |-> TRUE]
    ELSE LET b == record_failure(cbs[p], t)
         IN  [cbs |-> [cbs EXCEPT ![p] = b],
              health |-> [hs EXCEPT ![p] = health_on_validation_failed(
                                @, b, t, [kind |-> outcome, provider |-> p])],
              result |-> FALSE]

validate_api_key(cbs, hs, p, outcome, t, rt) ==
    IF outcome = "ok"
    THEN [cbs |-> cbs,
          health |-> [hs EXCEPT ![p] = health_on_validated(@, cbs[p], t, rt)],
          result |-> TRUE]
    ELSE [cbs |-> cbs,
          health |-> [hs EXCEPT ![p] = health_on_validation_failed(
                            @, cbs[p], t, [kind |-> outcome, provider |-> p])],
          result |-> FALSE]

\* check_provider_health, after the validation if any: the state of the
\* breaker is copied and the degraded flag set
health_after_check(h, b) ==
    LET h1 == [h EXCEPT !.circuit_breaker_state = b.state]
        rate == get_failure_rate(b)
    IN  IF b.state = OPEN
        THEN [h1 EXCEPT !.is_degraded = TRUE,
                        !.degradation_reason = "Circuit breaker is OPEN"]
        ELSE IF 2 * rate[1] > rate[2]
        THEN [h1 EXCEPT !.is_degraded = TRUE,
                        !.degradation_reason = "High failure rate"]
        ELSE IF h1.response_time_ms # NoResponseTime
                    /\ h1.response_time_ms > 10000
        THEN [h1 EXCEPT !.is_degraded = TRUE,
                        !.degradation_reason = "Slow response time"]
        ELSE h1

\* check_provider_health: the key is validated unless the breaker is Open and
\* its recovery timeout has not elapsed
needs_validation(b, t) == ~(b.state = OPEN /\ ~_should_attempt_reset(b, t))

\* what a health read reports of the providers S: breaker state, failure rate
HealthReport(hs, S) ==
    [p \in S |-> <<hs[p].circuit_breaker_state, hs[p].failure_rate>>]

\* get_circuit_breaker_metrics / CircuitBreaker.get_metrics
MetricsReport(cbs) ==
    [p \in Providers |-> <<cbs[p].state, get_failure_rate(cbs[p])>>]

\* the reads observation when a health read starts, and when one is complete
ReadsStarted(r, cbs) ==
    IF r.runs = -1
    THEN [runs |-> 0, cbs |-> cbs, prev |-> << >>, cur |-> << >>]
    ELSE r

ReadsAfter(r, cbs, report) ==
    LET base == ReadsStarted(r, cbs)
    IN  [runs |-> IF base.runs >= 2 THEN 2 ELSE base.runs + 1,
         cbs |-> base.cbs,
         prev |-> base.cur,
         cur |-> report]

\* check_provider_health(p) awaited by its caller (S = {p}): up to the
\* validation request, or to the return when no request is sent
health_check_start(o, kind, S) ==
    /\ ops[o].pc \in {"idle", "done"}
    /\ kind = "check_provider_health"
    /\ LET val == {p \in S : needs_validation(circuit_breakers[p], now)}
           hs == [p \in Providers |->
                    IF p \in S \ val
                    THEN health_after_check(provider_health[p],
                                            circuit_breakers[p])
                    ELSE provider_health[p]]
       IN  /\ provider_health' = hs
           /\ IF val = {}
              THEN /\ ops' = ops
                   /\ reads' = ReadsAfter(reads, circuit_breakers,
                                          HealthReport(hs, S))
              ELSE /\ ops' = [ops EXCEPT ![o] =
                                [IdleOp EXCEPT !.pc = "validate",
                                               !.kind = kind,
                                               !.checked = S,
                                               !.pending = val]]
                   /\ reads' = ReadsStarted(reads, circuit_breakers)
    /\ nops' = nops + 1
    /\ UNCHANGED <<now, circuit_breakers, fallback_chain, calls, ncalls,
                   transient_calls, observed>>

\* get_all_provider_health, up to await asyncio.gather(...): one
\* check_provider_health coroutine is created for each provider and gather
\* schedules them; none has run when the caller is suspended
get_all_provider_health_start(o) ==
    /\ ops[o].pc \in {"idle", "done"}
    /\ ops' = [ops EXCEPT ![o] =
                 [IdleOp EXCEPT !.pc = "gather",
                                !.kind = "get_all_provider_health",
                                !.checked = Providers]]
    /\ reads' = ReadsStarted(reads, circuit_breakers)
    /\ nops' = nops + 1
    /\ UNCHANGED <<now, circuit_breakers, provider_health, fallback_chain,
                   calls, ncalls, transient_calls, observed>>

\* the gathered checks run, one after the other with nothing in between, each
\* up to its validation request or to its end when it sends none
gathered_checks_start(o) ==
    /\ ops[o].pc = "gather"
    /\ LET S == ops[o].checked
           val == {p \in S : needs_validation(circuit_breakers[p], now)}
       IN  /\ provider_health' =
                 [p \in Providers |->
                    IF p \in S \ val
                    THEN health_after_check(provider_health[p],
                                            circuit_breakers[p])
                    ELSE provider_health[p]]
           /\ ops' = [ops EXCEPT ![o].pc = IF val = {} THEN "gathered"
                                           ELSE "validate",
                                 ![o].pending = val]
    /\ UNCHANGED <<now, circuit_breakers, fallback_chain, calls, ncalls,
                   transient_calls, nops, reads, observed>>

\* get_all_provider_health, after the gather: the caller is resumed and
\* returns self.provider_health.copy()
get_all_provider_health_done(o) ==
    /\ ops[o].pc = "gathered"
    /\ ops' = [ops EXCEPT ![o].pc = "done", ![o].result = "health"]
    /\ reads' = ReadsAfter(reads, circuit_breakers,
                           HealthReport(provider_health, ops[o].checked))
    /\ UNCHANGED <<now, circuit_breakers, provider_health, fallback_chain,
                   calls, ncalls, transient_calls, nops, observed>>

\* the validation request of the check of provider p is answered: the check
\* ends; a check awaited by its caller returns, a gathered check leaves the
\* return to a later step
health_check_done(o, p, outcome, rt) ==
    /\ ops[o].pc = "validate"
    /\ ops[o].kind \in {"check_provider_health", "get_all_provider_health"}
    /\ p \in ops[o].pending
    /\ LET v == validate_api_key(circuit_breakers, provider_health, p,
                                 outcome, now, rt)
           hs == [v.health EXCEPT ![p] = health_after_check(@, v.cbs[p])]
           rest == ops[o].pending \ {p}
       IN  /\ circuit_breakers' = v.cbs
           /\ provider_health' = hs
           /\ IF ops[o].kind = "get_all_provider_health"
              THEN /\ ops' = [ops EXCEPT ![o].pc = IF rest = {} THEN "gathered"
                                                   ELSE "validate",
                                         ![o].pending = rest]
                   /\ UNCHANGED reads
              ELSE /\ ops' = [ops EXCEPT ![o].pc = "done",
                                         ![o].pending = {},
                                         ![o].result = "health"]
                   /\ reads' = ReadsAfter(reads, circuit_breakers,
                                          HealthReport(hs, ops[o].checked))
    /\ UNCHANGED <<now, fallback_chain, calls, ncalls, transient_calls,
                   nops, observed>>

\* validate_api_key(p) called on the service, p configured: up to the
\* validation request
validate_api_key_start(o, p) ==
    /\ ops[o].pc \in {"idle", "done"}
    /\ ops' = [ops EXCEPT ![o] = [IdleOp EXCEPT !.pc = "validate",
                                                !.kind = "validate_api_key",
                                                !.provider = p,
                                                !.pending = {p}]]
    /\ nops' = nops + 1
    /\ reads' = NoReads
    /\ UNCHANGED <<now, circuit_breakers, provider_health, fallback_chain,
                   calls, ncalls, transient_calls, observed>>

\* validate_api_key: the validation request is answered
validate_api_key_done(o, outcome, rt) ==
    /\ ops[o].pc = "validate"
    /\ ops[o].kind = "validate_api_key"
    /\ LET v == validate_api_key(circuit_breakers, provider_health,
                                 ops[o].provider, outcome, now, rt)
       IN  /\ circuit_breakers' = v.cbs
           /\ provider_health' = v.health
           /\ ops' = [ops EXCEPT ![o].pc = "done",
                                 ![o].pending = {},
                                 ![o].result = v.result]
    /\ reads' = NoReads
    /\ UNCHANGED <<now, fallback_chain, calls, ncalls, transient_calls,
                   nops, observed>>

\* get_circuit_breaker_metrics
get_circuit_breaker_metrics ==
    /\ reads' = ReadsAfter(reads, circuit_breakers,
                           MetricsReport(circuit_breakers))
    /\ nops' = nops + 1
    /\ UNCHANGED <<now, circuit_breakers, provider_health, fallback_chain,
                   calls, ncalls, transient_calls, ops, observed>>

\* switch_provider(p): up to the validation request
switch_provider_start(o, p) ==
    /\ ops[o].pc \in {"idle", "done"}
    /\ ops' = [ops EXCEPT ![o] = [IdleOp EXCEPT !.pc = "validate",
                                                !.kind = "switch_provider",
                                                !.provider = p,
                                                !.pending = {p}]]
    /\ nops' = nops + 1
    /\ reads' = NoReads
    /\ UNCHANGED <<now, circuit_breakers, provider_health, fallback_chain,
                   calls, ncalls, transient_calls, observed>>

\* self.fallback_chain.remove(provider_config); insert(0, provider_config)
move_to_front(chain, p) == <<p>> \o SelectSeq(chain, LAMBDA q : q # p)

\* switch_provider: the validation request is answered
switch_provider_done(o, outcome, rt) ==
    /\ ops[o].pc = "validate"
    /\ ops[o].kind = "switch_provider"
    /\ LET p == ops[o].provider
           v == validate_api_key(circuit_breakers, provider_health, p,
                                 outcome, now, rt)
       IN  /\ circuit_breakers' = v.cbs
           /\ provider_health' = v.health
           /\ fallback_chain' = IF v.result
                                THEN move_to_front(fallback_chain, p)
                                ELSE fallback_chain
           /\ ops' = [ops EXCEPT ![o].pc = "done",
                                 ![o].pending = {},
                                 ![o].result = v.result]
    /\ reads' = NoReads
    /\ UNCHANGED <<now, calls, ncalls, transient_calls, nops, observed>>

\* force_recovery_attempt(p): up to the validation request
force_recovery_attempt_start(o, p) ==
    /\ ops[o].pc \in {"idle", "done"}
    /\ ops' = [ops EXCEPT ![o] =
                 [IdleOp EXCEPT !.pc = "validate",
                                !.kind = "force_recovery_attempt",
                                !.provider = p,
                                !.pending = {p},
                                !.original_state = circuit_breakers[p].state]]
    /\ circuit_breakers' = [circuit_breakers EXCEPT
                              ![p].state = HALF_OPEN,
                              ![p].half_open_calls = 0]
    /\ nops' = nops + 1
    /\ reads' = NoReads
    /\ UNCHANGED <<now, provider_health, fallback_chain, calls, ncalls,
                   transient_calls, observed>>

\* force_recovery_attempt: the state to restore when the validation failed
restored_state_open(b, original_state) ==
    [b EXCEPT !.state = OPEN]

restored_state(b, original_state) ==
    [b EXCEPT !.state = original_state]

\* force_recovery_attempt: the validation request is answered
force_recovery_attempt_done(o, outcome, rt) ==
    /\ ops[o].pc = "validate"
    /\ ops[o].kind = "force_recovery_attempt"
    /\ LET p == ops[o].provider
           v == validate_api_key(circuit_breakers, provider_health, p,
                                 outcome, now, rt)
       IN  /\ circuit_breakers' =
                 IF v.result THEN v.cbs
                 ELSE [v.cbs EXCEPT
                         ![p] = restored_state(@, ops[o].original_state)]
           /\ provider_health' = v.health
           /\ ops' = [ops EXCEPT ![o].pc = "done",
                                 ![o].pending = {},
                                 ![o].result = v.result]
    /\ reads' = NoReads
    /\ UNCHANGED <<now, fallback_chain, calls, ncalls, transient_calls,
                   nops, observed>>

\* a reset_circuit_breaker that resets the breaker of every provider
reset_circuit_breaker_all(p) ==
    /\ circuit_breakers' = [q \in Providers |-> _reset(circuit_breakers[q])]
    /\ provider_health' = [provider_health EXCEPT
                             ![p].status = HEALTHY,
                             ![p].circuit_breaker_state = CLOSED,
                             ![p].consecutive_failures = 0,
                             ![p].recovery_attempts = 0,
                             ![p].is_degraded = FALSE,
                             ![p].degradation_reason = "none"]
    /\ nops' = nops + 1
    /\ reads' = NoReads
    /\ UNCHANGED <<now, fallback_chain, calls, ncalls, transient_calls,
                   ops, observed>>

\* reset_circuit_breaker(p), p configured
reset_circuit_breaker(p) ==
    /\ circuit_breakers' = [circuit_breakers EXCEPT ![p] = _reset(@)]
    /\ provider_health' = [provider_health EXCEPT
                             ![p].status = HEALTHY,
                             ![p].circuit_breaker_state = CLOSED,
                             ![p].consecutive_failures = 0,
                             ![p].recovery_attempts = 0,
                             ![p].is_degraded = FALSE,
                             ![p].degradation_reason = "none"]
    /\ nops' = nops + 1
    /\ reads' = NoReads
    /\ UNCHANGED <<now, fallback_chain, calls, ncalls, transient_calls,
                   ops, observed>>

\* the task awaiting generate_text is cancelled while the provider request
\* or the backoff sleep is pending: CancelledError is raised at the await and
\* no handler of generate_text catches it
cancel_as_failure(c) ==
    /\ calls[c].pc \in {"request", "sleep"}
    /\ LET g == give_up(calls[c], "transient", circuit_breakers,
                        provider_health, fallback_chain, now)
       IN  /\ calls' = [calls EXCEPT
                        ![c] = [g.call EXCEPT !.cancel_requested = TRUE]]
           /\ circuit_breakers' = g.cbs
           /\ provider_health' = g.health
    /\ UNCHANGED <<now, fallback_chain, ncalls, transient_calls, observed>>

cancel(c) ==
    /\ calls[c].pc \in {"request", "sleep"}
    /\ calls' = [calls EXCEPT ![c].pc = "cancelled",
                              ![c].cancel_requested = TRUE]
    /\ UNCHANGED <<now, circuit_breakers, provider_health, fallback_chain,
                   ncalls, transient_calls, observed>>

\* time passes: d ticks at once
TimePasses(d) ==
    /\ now + d <= MaxCallTime
    /\ now' = now + d
    /\ UNCHANGED <<circuit_breakers, provider_health, fallback_chain,
                   calls, ncalls, transient_calls, observed>>

\* a step of a generate_text call
CallStep(c) ==
    \/ provider_success(c)
    \/ \E kind \in {"transient", "auth"} : provider_error(c, kind)
    \/ backoff_elapsed(c)

\* a validation request is answered
Answers == {a \in [outcome : Outcomes, rt : ResponseTimes] :
                a.outcome # "ok" => a.rt = 100}

\* the answers to the validation requests of SpecCBOps and SpecReads
QuickAnswers == {a \in Answers : a.outcome # "auth" /\ a.rt = 100}

\* ------------------------------------------- concurrent generate_text calls

\* two callers, each making one call, and either may cancel
NextConc ==
    /\ \/ TimePasses(RecoveryTimeout + 1)
       \/ \E c \in Calls :
             \/ (ncalls < MaxConcCalls /\ generate_text_start(c))
             \/ CallStep(c)
             \/ cancel(c)
    /\ UNCHANGED operator_side
    /\ UNCHANGED handed
    /\ UNCHANGED setup
    /\ UNCHANGED limiter

SpecConc == Init /\ [][NextConc]_vars

\* ------------------------------- switch_provider during a generate_text call

NextSwitch ==
    /\ \/ /\ \/ (ncalls < MaxSwitchCalls /\ generate_text_start("c1"))
             \/ CallStep("c1")
          /\ UNCHANGED <<ops, nops, reads>>
       \/ \E o \in Operators :
             \/ /\ nops < MaxSwitches
                /\ \E p \in Providers : switch_provider_start(o, p)
             \/ \E a \in Answers : switch_provider_done(o, a.outcome, a.rt)
    /\ UNCHANGED admissions
    /\ UNCHANGED handed
    /\ UNCHANGED setup
    /\ UNCHANGED limiter

SpecSwitch == Init /\ [][NextSwitch]_vars

\* -------------------------- the steps of generate_text on a provider's breaker

\* the position of provider p in the chain
position(chain, p) == CHOOSE i \in 1..Len(chain) : chain[i] = p

\* the providers whose breaker the head of the provider loop called
\* can_execute() on
loop_asked(n) ==
    {n.skipped[i] : i \in 1..Len(n.skipped)} \cup ({n.provider} \ {"none"})

\* the observations after the head of the provider loop did n, starting from
\* the breakers cbs, in a step of a call on provider p: the last call on the
\* breaker of p (l when the loop did not ask p), the streaks and the probes
LoopLast(p, l, cbs, n) ==
    IF p \in loop_asked(n)
    THEN [op |-> "can_execute", provider |-> p, result |-> (n.provider = p),
          time |-> now, pre |-> cbs[p]]
    ELSE l

LoopStreak(st, n) ==
    [q \in Providers |->
        IF q \in loop_asked(n)
        THEN StreakAfter(st[q], n.cbs[q], "can_execute")
        ELSE st[q]]

LoopProbes(pr, cbs, n) ==
    [q \in Providers |->
        IF q \in loop_asked(n)
        THEN ProbesAfter(pr[q], cbs[q], n.cbs[q], "can_execute")
        ELSE pr[q]]

\* generate_text is called, lines 631-654: the iterator of the provider loop
\* starts at the head of the chain, whose first provider is p; the loop
\* calls can_execute() on the breaker of p and on the breaker of each
\* provider after it until one admits; the request to that provider is sent
generate_text_admission(p) ==
    LET n == next_provider(circuit_breakers, fallback_chain, 0, now, << >>)
    IN  /\ p = fallback_chain[1]
        /\ circuit_breakers' = n.cbs
        /\ last' = LoopLast(p, last, circuit_breakers, n)
        /\ streak' = LoopStreak(streak, n)
        /\ probes' = LoopProbes(probes, circuit_breakers, n)
        /\ admissions' = AdmissionsAfter({n.provider} \ {"none"})
        /\ UNCHANGED <<now, provider_health, fallback_chain, calls, ncalls,
                       transient_calls, last_record>>

\* generate_text, lines 654-671: the provider answered; record_success(),
\* the health record of the provider, and the return
generate_text_success(p) ==
    LET b == record_success(circuit_breakers[p], now)
    IN  /\ circuit_breakers' = [circuit_breakers EXCEPT ![p] = b]
        /\ provider_health' = [provider_health EXCEPT
                                 ![p] = health_on_success(@, b, now)]
        /\ last' = [op |-> "record_success", provider |-> p, result |-> TRUE,
                    time |-> now, pre |-> circuit_breakers[p]]
        /\ last_record' = last'
        /\ streak' = [streak EXCEPT ![p] = StreakAfter(@, b, "record_success")]
        /\ probes' = [probes EXCEPT
                        ![p] = ProbesAfter(@, circuit_breakers[p], b, "record_success")]
        /\ admissions' = AdmissionsAfter({})
        /\ UNCHANGED <<now, fallback_chain, calls, ncalls, transient_calls>>

\* generate_text, lines 697-715 and 636-654: the last attempt on p failed
\* with another error than InvalidAPIKey; record_failure(), the health
\* record of the provider, and the loop goes on from its iterator, which
\* has passed `it` places of the chain: the place p had when the call took
\* it, which is not its place now once switch_provider has moved a provider
\* to the front of the list meanwhile
generate_text_failure(p, it) ==
    LET b == record_failure(circuit_breakers[p], now)
        e == [kind |-> "transient", provider |-> p]
        cbs1 == [circuit_breakers EXCEPT ![p] = b]
        n == next_provider(cbs1, fallback_chain, it, now, << >>)
        record == [op |-> "record_failure", provider |-> p, result |-> TRUE,
                   time |-> now, pre |-> circuit_breakers[p]]
    IN  /\ circuit_breakers' = n.cbs
        /\ provider_health' = [provider_health EXCEPT
                                 ![p] = health_on_failure(@, b, e)]
        /\ last' = LoopLast(p, record, cbs1, n)
        /\ last_record' = record
        /\ streak' = LoopStreak(
                        [streak EXCEPT
                           ![p] = StreakAfter(@, b, "record_failure")], n)
        /\ probes' = LoopProbes(
                        [probes EXCEPT
                           ![p] = ProbesAfter(@, circuit_breakers[p], b,
                                              "record_failure")], cbs1, n)
        /\ admissions' = AdmissionsAfter({n.provider} \ {"none"})
        /\ UNCHANGED <<now, fallback_chain, calls, ncalls, transient_calls>>

\* generate_text, lines 683-696 and 636-654: the last attempt on p failed
\* with InvalidAPIKey; the health record of the provider, no record on its
\* breaker, and the loop goes on from its iterator, which has passed `it`
\* places of the chain
generate_text_invalid_api_key(p, it) ==
    LET n == next_provider(circuit_breakers, fallback_chain, it, now, << >>)
    IN  /\ provider_health[p].recovery_attempts < MaxAuthFailures
        /\ circuit_breakers' = n.cbs
        /\ provider_health' = [provider_health EXCEPT
                                 ![p] = health_on_invalid_api_key(
                                            @, [kind |-> "auth", provider |-> p])]
        /\ last' = LoopLast(p, last, circuit_breakers, n)
        /\ streak' = LoopStreak(streak, n)
        /\ probes' = LoopProbes(probes, circuit_breakers, n)
        /\ admissions' = AdmissionsAfter({n.provider} \ {"none"})
        /\ UNCHANGED <<now, fallback_chain, calls, ncalls, transient_calls,
                       last_record>>

\* record_success and record_failure calls made so far, on the breakers of
\* the providers S
RECURSIVE records_made(_)
records_made(S) ==
    IF S = {} THEN 0
    ELSE LET p == CHOOSE q \in S : TRUE
         IN  circuit_breakers[p].total_requests + records_made(S \ {p})

\* what any number of concurrent generate_text coroutines do, each step
\* between two awaits, in any order: a call begins, or the provider p a call
\* awaits answers its last attempt, with a response or with another error
\* than InvalidAPIKey.  The calls are not kept: the iterator of the call
\* that is answered is an input of the step.
GenerateTextAnswered ==
    \/ generate_text_admission(fallback_chain[1])
    \/ \E p \in Providers : generate_text_success(p)
    \/ \E p \in Providers, it \in 1..Len(fallback_chain) :
          generate_text_failure(p, it)

\* the calls reach the first provider of the chain only, which answers with
\* a response or with any error; the chain is never reordered, so that the
\* iterator of a call stands at the place of the provider it awaits
GenerateTextStep(p) ==
    \/ generate_text_admission(p)
    \/ generate_text_success(p)
    \/ generate_text_failure(p, position(fallback_chain, p))
    \/ generate_text_invalid_api_key(p, position(fallback_chain, p))

\* --------------------- health checks and operator actions on a live service

\* a step of a health check or an operator action
OperatorStep(o) ==
    \/ /\ nops < MaxOps
       /\ records_made(Providers) + nops < MaxOpsSteps
       /\ \/ \E p \in Providers :
                health_check_start(o, "check_provider_health", {p})
          \/ \E p \in Providers : switch_provider_start(o, p)
          \/ \E p \in Providers : force_recovery_attempt_start(o, p)
          \/ \E p \in Providers : reset_circuit_breaker(p)
          \/ \E p \in Providers : validate_api_key_start(o, p)
    \/ \E a \in QuickAnswers :
          \/ \E p \in Providers : health_check_done(o, p, a.outcome, a.rt)
          \/ switch_provider_done(o, a.outcome, a.rt)
          \/ force_recovery_attempt_done(o, a.outcome, a.rt)
          \/ validate_api_key_done(o, a.outcome, a.rt)

\* the steps of concurrent generate_text coroutines, interleaved with health
\* checks and operator actions; no provider answers with InvalidAPIKey
\* (QuickAnswers)
NextCBOps ==
    /\ \/ (TimePasses(RecoveryTimeout + 1) /\ UNCHANGED <<ops, nops, reads>>
                /\ UNCHANGED admissions)
       \/ (records_made(Providers) < MaxOpsRequests
                /\ records_made(Providers) + nops < MaxOpsSteps
                /\ GenerateTextAnswered /\ reads' = NoReads
                /\ UNCHANGED <<ops, nops>>)
       \/ (\E o \in Operators : OperatorStep(o))
                /\ admissions' = AdmissionsAfter({})
    /\ UNCHANGED handed
    /\ UNCHANGED setup
    /\ UNCHANGED limiter

SpecCBOps == Init /\ [][NextCBOps]_vars

\* ------------------------------------- health reads between generate_text calls

\* the caller makes one generate_text call after the other, and health reads
\* while no call is running
NextReads ==
    /\ \/ TimePasses(RecoveryTimeout + 1) /\ UNCHANGED <<ops, nops, reads>>
       \/ /\ \A o \in Operators : ops[o].pc \in {"idle", "done"}
          /\ \/ (ncalls < MaxReadCalls /\ generate_text_start("c1"))
             \/ CallStep("c1")
          /\ reads' = NoReads
          /\ UNCHANGED <<ops, nops>>
       \/ /\ calls["c1"].pc \notin {"request", "sleep"}
          /\ \E o \in Operators :
                \/ /\ nops < MaxReads
                   /\ \/ \E p \in Providers :
                            health_check_start(o, "check_provider_health", {p})
                      \/ get_all_provider_health_start(o)
                      \/ get_circuit_breaker_metrics
                \/ gathered_checks_start(o)
                \/ get_all_provider_health_done(o)
                \/ \E a \in QuickAnswers, p \in Providers :
                      health_check_done(o, p, a.outcome, a.rt)
    /\ UNCHANGED admissions
    /\ UNCHANGED handed
    /\ UNCHANGED setup
    /\ UNCHANGED limiter

SpecReads == Init /\ [][NextReads]_vars

\* ------------------------------------------- operator actions and their callers

\* an operator action that returned at once, or started: what is kept of it
Started(kind, p) ==
    [NoOp EXCEPT !.kind = kind,
                 !.provider = p,
                 !.time = now,
                 !.cbs0 = circuit_breakers,
                 !.hs0 = provider_health]

\* nothing happens but the count of the operator actions made
returns_at_once ==
    /\ nops' = nops + 1
    /\ reads' = NoReads
    /\ UNCHANGED <<now, circuit_breakers, provider_health, fallback_chain,
                   calls, ncalls, transient_calls, ops, observed>>

\* reset_circuit_breaker(p) and the value it returns
reset_circuit_breaker_call(p) ==
    /\ IF p \notin DOMAIN circuit_breakers
       THEN /\ returns_at_once
            /\ last_op' = [Started("reset_circuit_breaker", p) EXCEPT
                              !.done = TRUE, !.returned = FALSE]
       ELSE /\ reset_circuit_breaker(p)
            /\ last_op' = [Started("reset_circuit_breaker", p) EXCEPT
                              !.done = TRUE, !.returned = TRUE]
    /\ UNCHANGED held

\* force_recovery_attempt(p), up to the validation request or to the return
\* for an unknown provider
force_recovery_attempt_call(o, p) ==
    /\ IF p \notin DOMAIN circuit_breakers
       THEN /\ ops[o].pc \in {"idle", "done"}
            /\ returns_at_once
            /\ last_op' = [Started("force_recovery_attempt", p) EXCEPT
                              !.done = TRUE, !.returned = FALSE]
       ELSE /\ force_recovery_attempt_start(o, p)
            /\ last_op' = Started("force_recovery_attempt", p)
    /\ UNCHANGED held

\* force_recovery_attempt: the validation request is answered, and the value
\* returned
force_recovery_attempt_return(o, outcome, rt) ==
    /\ force_recovery_attempt_done(o, outcome, rt)
    /\ last_op' = IF last_op.kind = "force_recovery_attempt" /\ ~last_op.done
                  THEN [last_op EXCEPT !.done = TRUE,
                                       !.returned = ops'[o].result]
                  ELSE NoOp
    /\ UNCHANGED held

\* get_available_providers from position i of the chain: can_execute() is
\* called on the breaker of each provider
RECURSIVE available_from(_, _, _, _, _)
available_from(cbs, chain, i, t, available) ==
    IF i > Len(chain) THEN [cbs |-> cbs, available |-> available]
    ELSE LET r == can_execute(cbs[chain[i]], t)
         IN  available_from([cbs EXCEPT ![chain[i]] = r.b], chain, i + 1, t,
                            IF r.result THEN Append(available, chain[i])
                            ELSE available)

\* get_available_providers
get_available_providers ==
    LET r == available_from(circuit_breakers, fallback_chain, 1, now, << >>)
    IN  /\ circuit_breakers' = r.cbs
        /\ last_op' = [Started("get_available_providers", "none") EXCEPT
                          !.done = TRUE, !.available = r.available]
        /\ nops' = nops + 1
        /\ reads' = NoReads
        /\ UNCHANGED <<now, provider_health, fallback_chain, calls, ncalls,
                       transient_calls, ops, observed, held>>

\* what the caller of a health check on the providers S is handed: the
\* ProviderHealth objects of provider_health themselves
Handed(S, hs) == [refs |-> S, seen |-> [p \in S |-> hs[p]]]

\* check_provider_health(p), up to the validation request or to the return
check_provider_health_call(o, p) ==
    /\ health_check_start(o, "check_provider_health", {p})
    /\ held' = IF needs_validation(circuit_breakers[p], now) THEN held
               ELSE Handed({p}, provider_health')
    /\ last_op' = NoOp

\* get_all_provider_health is called: nothing is handed to the caller before
\* the gather is over
get_all_provider_health_call(o) ==
    /\ get_all_provider_health_start(o)
    /\ last_op' = NoOp
    /\ UNCHANGED held

\* the gathered checks of get_all_provider_health run
get_all_provider_health_checks(o) ==
    /\ gathered_checks_start(o)
    /\ last_op' = NoOp
    /\ UNCHANGED held

\* get_all_provider_health returns the copy of provider_health
get_all_provider_health_return(o) ==
    /\ get_all_provider_health_done(o)
    /\ held' = Handed(ops[o].checked, provider_health)
    /\ last_op' = NoOp

\* validate_api_key(p), up to the validation request or to the return for an
\* unknown provider
validate_api_key_call(o, p) ==
    /\ IF p \notin DOMAIN circuit_breakers
       THEN /\ ops[o].pc \in {"idle", "done"}
            /\ returns_at_once
            /\ last_op' = [Started("validate_api_key", p) EXCEPT
                              !.done = TRUE, !.returned = FALSE]
       ELSE /\ validate_api_key_start(o, p)
            /\ last_op' = Started("validate_api_key", p)
    /\ UNCHANGED held

\* validate_api_key: the validation request is answered, and the value
\* returned
validate_api_key_return(o, outcome, rt) ==
    /\ validate_api_key_done(o, outcome, rt)
    /\ last_op' = IF last_op.kind = "validate_api_key" /\ ~last_op.done
                  THEN [last_op EXCEPT !.done = TRUE,
                                       !.returned = ops'[o].result]
                  ELSE NoOp
    /\ UNCHANGED held

\* a validation request of a health check is answered; a check awaited by
\* its caller returns
health_check_return(o, p, outcome, rt) ==
    /\ health_check_done(o, p, outcome, rt)
    /\ held' = IF ops'[o].pc = "done"
               THEN Handed(ops[o].checked, provider_health')
               ELSE held
    /\ last_op' = NoOp

\* a step of an operator action or of a health check
AdminStep(o) ==
    \/ /\ nops < MaxAdminOps
       /\ \/ \E p \in Requested : reset_circuit_breaker_call(p)
          \/ \E p \in Requested : force_recovery_attempt_call(o, p)
          \/ get_available_providers
          \/ \E p \in Providers : check_provider_health_call(o, p)
          \/ get_all_provider_health_call(o)
          \/ \E p \in Requested : validate_api_key_call(o, p)
    \/ get_all_provider_health_checks(o)
    \/ get_all_provider_health_return(o)
    \/ \E a \in QuickAnswers :
          \/ force_recovery_attempt_return(o, a.outcome, a.rt)
          \/ \E p \in Providers : health_check_return(o, p, a.outcome, a.rt)
          \/ validate_api_key_return(o, a.outcome, a.rt)

\* the steps of concurrent generate_text coroutines on the primary provider,
\* interleaved with operator actions and health checks whose callers keep
\* what they were handed
NextAdmin ==
    /\ \/ (TimePasses(RecoveryTimeout + 1) /\ UNCHANGED <<ops, nops, reads>>
                /\ UNCHANGED admissions /\ UNCHANGED handed)
       \/ (circuit_breakers[Driven].total_requests < MaxAdminRequests
                /\ GenerateTextStep(Driven) /\ reads' = NoReads
                /\ last_op' = NoOp
                /\ UNCHANGED <<ops, nops, held>>)
       \/ (\E o \in Operators : AdminStep(o))
                /\ admissions' = AdmissionsAfter(
                        IF last_op'.kind = "get_available_providers"
                        THEN {last_op'.available[i] :
                                 i \in 1..Len(last_op'.available)}
                        ELSE {})
    /\ UNCHANGED setup
    /\ UNCHANGED limiter

SpecAdmin == Init /\ [][NextAdmin]_vars

\* ------------------------------------------------ construction of the service

\* the settings: an API key for each LLMProvider, and the primary provider
InitBuild ==
    /\ now = 0
    /\ circuit_breakers = << >>
    /\ provider_health = << >>
    /\ fallback_chain = << >>
    /\ Quiet
    /\ RateLimiter
    /\ backoff = NoBackoff
    /\ build \in [ status : {"new"},
                    keys : [Requested -> KeyKinds],
                    primary : Primaries,
                    chain0 : {<< >>} ]

\* LLMService.__init__
construct ==
    /\ build.status = "new"
    /\ LET providers == _initialize_providers(build.keys)
           chain == _create_fallback_chain(providers, build.primary)
       IN  IF providers = {}
           THEN /\ build' = [build EXCEPT !.status = "failed"]
                /\ UNCHANGED <<circuit_breakers, provider_health,
                               fallback_chain>>
           ELSE /\ circuit_breakers' = [p \in providers |-> CircuitBreaker]
                /\ provider_health' = [p \in providers |-> ProviderHealth(now)]
                /\ fallback_chain' = chain
                /\ build' = [build EXCEPT !.status = "ready",
                                          !.chain0 = chain]
    /\ UNCHANGED <<now, calls, ncalls, transient_calls, observed,
                   operator_side, handed, backoff, limiter>>

\* switch_provider(p), up to the validation request or to the return for an
\* unknown provider
switch_provider_call(o, p) ==
    /\ IF p \notin DOMAIN circuit_breakers
       THEN /\ ops[o].pc \in {"idle", "done"}
            /\ returns_at_once
            /\ last_op' = [Started("switch_provider", p) EXCEPT
                              !.done = TRUE, !.returned = FALSE]
       ELSE /\ switch_provider_start(o, p)
            /\ last_op' = NoOp
    /\ UNCHANGED held

\* the service is constructed, then used: one generate_text call and the
\* operator actions
NextBuild ==
    /\ \/ construct
       \/ /\ build.status = "ready"
          /\ \/ /\ \/ (ncalls < MaxBuildCalls /\ generate_text_start("c1"))
                   \/ CallStep("c1")
                /\ last_op' = NoOp
                /\ UNCHANGED <<ops, nops, reads, held>>
             \/ \E o \in Operators :
                   \/ /\ nops < MaxBuildOps
                      /\ \/ \E p \in Requested : switch_provider_call(o, p)
                         \/ \E p \in Requested :
                               force_recovery_attempt_call(o, p)
                         \/ \E p \in Requested : reset_circuit_breaker_call(p)
                   \/ \E a \in QuickAnswers :
                         \/ (switch_provider_done(o, a.outcome, a.rt)
                                /\ UNCHANGED handed)
                         \/ force_recovery_attempt_return(o, a.outcome, a.rt)
          /\ UNCHANGED <<admissions, build, backoff, limiter>>

SpecBuild == InitBuild /\ [][NextBuild]_vars

\* --------------------------------------------------------- backoff delays

\* the retry configurations, in ms, and the jitter percentages drawn
RetryConfigs ==
    [ base_delay : {500, 1000},
      max_delay : {3000, 60000},
      backoff_multiplier : {1, 2, 3} ]

Jitters == {0, 10, 15, 20, 30}

\* a service and the arguments of a _calculate_backoff_delay call
InitBackoff ==
    /\ now = 0
    /\ circuit_breakers = [p \in Providers |-> CircuitBreaker]
    /\ provider_health = [p \in Providers |-> ProviderHealth(0)]
    /\ fallback_chain = _create_fallback_chain(Providers, primary_provider)
    /\ Quiet
    /\ RateLimiter
    /\ build = Constructed
    /\ backoff \in [ retry_config : RetryConfigs,
                      attempt : 0..MaxAttempt,
                      jitter : Jitters,
                      delay : {-1} ]

\* _calculate_backoff_delay(attempt)
calculate_backoff_delay ==
    /\ backoff.delay = -1
    /\ backoff' = [backoff EXCEPT
                     !.delay = backoff_delay(backoff.retry_config,
                                             backoff.attempt, backoff.jitter)]
    /\ UNCHANGED <<now, circuit_breakers, provider_health, fallback_chain,
                   calls, ncalls, transient_calls, observed, operator_side,
                   handed, build, limiter>>

SpecBackoff == InitBackoff /\ [][calculate_backoff_delay]_vars

\* ------------------------- termination of concurrent generate_text calls

\* two callers making one generate_text call each, the caller of c1 first,
\* while an operator switches to the provider that is not the primary one
\* and the validation request succeeds
NextLive ==
    /\ \/ /\ \E c \in Calls :
                \/ /\ ncalls < MaxLiveCalls
                   /\ c = "c2" => calls["c1"].pc # "idle"
                   /\ generate_text_start(c)
                \/ CallStep(c)
          /\ UNCHANGED <<ops, nops, reads>>
       \/ \E o \in Operators :
             \/ /\ nops < MaxLiveSwitches
                /\ \E p \in Providers \ {primary_provider} :
                      switch_provider_start(o, p)
             \/ switch_provider_done(o, "ok", 100)
    /\ UNCHANGED admissions
    /\ UNCHANGED handed
    /\ UNCHANGED setup
    /\ UNCHANGED limiter

\* the step of call c as a step of NextLive
LiveCallStep(c) ==
    /\ CallStep(c)
    /\ UNCHANGED operator_side
    /\ UNCHANGED handed
    /\ UNCHANGED setup
    /\ UNCHANGED limiter

\* every provider request is answered and every backoff sleep returns: the
\* event loop resumes a coroutine whose await has completed
SpecLive ==
    Init /\ [][NextLive]_vars /\ \A c \in Calls : WF_vars(LiveCallStep(c))

\* --------------------------------------------- recovery of an Open breaker

\* what a call made directly on a breaker leaves alone
breaker_frame ==
    /\ UNCHANGED <<ops, nops, reads>>
    /\ UNCHANGED handed
    /\ UNCHANGED setup
    /\ UNCHANGED limiter

\* the clock advances
ClockStep == Tick /\ UNCHANGED admissions /\ breaker_frame

\* an admission check is made on the breaker of the primary provider
AdmissionCheck ==
    /\ CanExecute(Driven)
    /\ admissions' = AdmissionsAfter(IF last'.result THEN {Driven} ELSE {})
    /\ breaker_frame

\* a call made through a Closed breaker fails, early enough for the clock of
\* the model to pass the recovery timeout and for the probes to be recorded
FailureWhileClosed ==
    /\ circuit_breakers[Driven].state = CLOSED
    /\ now + RecoveryTimeout < MaxTime
    /\ circuit_breakers[Driven].total_requests + HalfOpenMaxCalls < MaxRequests
    /\ RecordFailure(Driven)
    /\ admissions' = AdmissionsAfter({})
    /\ breaker_frame

\* a call admitted by the breaker when it was Closed succeeds
SuccessOfAdmitted ==
    /\ circuit_breakers[Driven].state \in {CLOSED, OPEN}
    /\ circuit_breakers[Driven].total_requests + HalfOpenMaxCalls < MaxRequests
    /\ RecordSuccess(Driven)
    /\ admissions' = AdmissionsAfter({})
    /\ breaker_frame

\* a probe admitted by the HalfOpen breaker succeeds
ProbeSuccess ==
    /\ circuit_breakers[Driven].state = HALF_OPEN
    /\ RecordSuccess(Driven)
    /\ admissions' = AdmissionsAfter({})
    /\ breaker_frame

\* after the trip every call recorded is a success
NextRecover ==
    \/ ClockStep
    \/ AdmissionCheck
    \/ FailureWhileClosed
    \/ SuccessOfAdmitted
    \/ ProbeSuccess

\* time keeps advancing, admission checks keep being made, and the probes
\* admitted are answered
SpecRecover ==
    /\ Init
    /\ [][NextRecover]_vars
    /\ WF_vars(ClockStep)
    /\ WF_vars(AdmissionCheck)
    /\ WF_vars(ProbeSuccess)

\* --------------------------------------------------------------- RateLimiter

\* self.time_window in clock ticks
window == time_window * TicksPerSecond

\* the clean-up loop of allow_request, get_retry_after and
\* get_remaining_requests: popleft() while the oldest timestamp is more than
\* time_window old
RECURSIVE clean_up(_, _)
clean_up(q, t) ==
    IF q # << >> /\ t - Head(q) > window THEN clean_up(Tail(q), t) ELSE q

\* an allow_request that admits one request more
allow_request_one_more(requests, user_id, t) ==
    LET q == clean_up(requests[user_id], t)
    IN  IF Len(q) <= max_requests
        THEN [user_requests |-> [requests EXCEPT ![user_id] = Append(q, t)],
              result |-> TRUE]
        ELSE [user_requests |-> [requests EXCEPT ![user_id] = q],
              result |-> FALSE]

\* RateLimiter.allow_request: the timestamps afterwards, the value returned
allow_request(requests, user_id, t) ==
    LET q == clean_up(requests[user_id], t)
    IN  IF Len(q) < max_requests
        THEN [user_requests |-> [requests EXCEPT ![user_id] = Append(q, t)],
              result |-> TRUE]
        ELSE [user_requests |-> [requests EXCEPT ![user_id] = q],
              result |-> FALSE]

\* RateLimiter.get_retry_after: the timestamps afterwards, the seconds
\* returned; int() truncates time_window - time_elapsed + 1
get_retry_after(requests, user_id, t) ==
    LET q == clean_up(requests[user_id], t)
        after == [requests EXCEPT ![user_id] = q]
    IN  IF q = << >> THEN [user_requests |-> after, result |-> 0]
        ELSE LET time_elapsed == t - Head(q)
                 retry_after == window - time_elapsed + TicksPerSecond
             IN  [user_requests |-> after,
                  result |-> IF retry_after <= 0 THEN 0
                             ELSE retry_after \div TicksPerSecond]

\* RateLimiter.get_remaining_requests
get_remaining_requests(requests, user_id, t) ==
    LET q == clean_up(requests[user_id], t)
    IN  [user_requests |-> [requests EXCEPT ![user_id] = q],
         result |-> IF max_requests - Len(q) < 0 THEN 0
                    ELSE max_requests - Len(q)]

\* RateLimiter.reset: one user, or every user when user_id is None
reset(requests, user_id) ==
    IF user_id # NoUser
    THEN [requests EXCEPT ![user_id] = << >>]
    ELSE [u \in DOMAIN requests |-> << >>]

\* the call observed
LimiterCall(op, user_id, result, value) ==
    [ op |-> op,
      user |-> user_id,
      time |-> current_time,
      result |-> result,
      value |-> value,
      before |-> user_requests,
      admitted_before |-> limiter_seen.admitted ]

\* what the limiter leaves alone
limiter_frame ==
    UNCHANGED <<now, circuit_breakers, provider_health, fallback_chain,
                calls, ncalls, transient_calls, observed, operator_side,
                handed, setup>>

\* time.time() advances by one tick
LimiterTick ==
    /\ current_time < MaxLimiterTime
    /\ current_time' = current_time + 1
    /\ UNCHANGED <<user_requests, limiter_seen>>
    /\ limiter_frame

\* rate_limiter.allow_request(user_id)
AllowRequest(user_id) ==
    /\ limiter_seen.ncalls < MaxLimiterCalls
    /\ LET r == allow_request(user_requests, user_id, current_time)
       IN  /\ user_requests' = r.user_requests
           /\ limiter_seen' =
                 [ admitted |-> IF r.result
                                THEN [limiter_seen.admitted EXCEPT
                                        ![user_id] = Append(@, current_time)]
                                ELSE limiter_seen.admitted,
                   refused |-> IF r.result THEN limiter_seen.refused
                               ELSE limiter_seen.refused \cup {user_id},
                   ncalls |-> limiter_seen.ncalls + 1,
                   last |-> LimiterCall("allow_request", user_id, r.result, 0) ]
    /\ UNCHANGED current_time
    /\ limiter_frame

\* rate_limiter.get_retry_after(user_id)
GetRetryAfter(user_id) ==
    /\ limiter_seen.ncalls < MaxLimiterCalls
    /\ LET r == get_retry_after(user_requests, user_id, current_time)
       IN  /\ user_requests' = r.user_requests
           /\ limiter_seen' =
                 [limiter_seen EXCEPT
                    !.ncalls = @ + 1,
                    !.last = LimiterCall("get_retry_after", user_id, FALSE,
                                         r.result)]
    /\ UNCHANGED current_time
    /\ limiter_frame

\* rate_limiter.get_remaining_requests(user_id)
GetRemainingRequests(user_id) ==
    /\ limiter_seen.ncalls < MaxLimiterCalls
    /\ LET r == get_remaining_requests(user_requests, user_id, current_time)
       IN  /\ user_requests' = r.user_requests
           /\ limiter_seen' =
                 [limiter_seen EXCEPT
                    !.ncalls = @ + 1,
                    !.last = LimiterCall("get_remaining_requests", user_id,
                                         FALSE, r.result)]
    /\ UNCHANGED current_time
    /\ limiter_frame

\* rate_limiter.reset(user_id): the limiter forgets the requests of the user
Reset(user_id) ==
    /\ limiter_seen.ncalls < MaxLimiterCalls
    /\ user_requests' = reset(user_requests, user_id)
    /\ limiter_seen' =
          [limiter_seen EXCEPT
             !.admitted = reset(@, user_id),
             !.ncalls = @ + 1,
             !.last = LimiterCall("reset", user_id, FALSE, 0)]
    /\ UNCHANGED current_time
    /\ limiter_frame

NextLimiter ==
    \/ LimiterTick
    \/ \E user_id \in Users : AllowRequest(user_id)
    \/ \E user_id \in Users : GetRetryAfter(user_id)
    \/ \E user_id \in Users : GetRemainingRequests(user_id)
    \/ \E user_id \in Users \cup {NoUser} : Reset(user_id)

SpecLimiter == Init /\ [][NextLimiter]_vars

\* ------------------------------------------------- claims on the breaker

\* C1: from Closed with failure_count 0, fewer than failure_threshold
\* record_failure calls with no record_success in between leave the breaker
\* Closed and admitting; the failure_threshold-th one leaves it Open, and a
\* can_execute made before recovery_timeout has elapsed returns false.
C1_TripsAtThreshold ==
    \A p \in Providers :
        LET b == circuit_breakers[p]
            asked == last.op = "can_execute" /\ last.provider = p
        IN  /\ (streak[p] >= 0 /\ streak[p] < FailureThreshold) =>
                    /\ b.state = CLOSED
                    /\ can_execute(b, now).result
                    /\ asked => last.result
            /\ (streak[p] = FailureThreshold
                    /\ now - b.last_failure_time < RecoveryTimeout) =>
                    /\ b.state = OPEN
                    /\ ~can_execute(b, now).result
                    /\ asked => ~last.result

\* C1 witness: failure_threshold failures in a row tripped the breaker and the
\* can_execute that followed was refused.
C1_Witness ==
    /\ streak[Driven] = FailureThreshold
    /\ circuit_breakers[Driven].state = OPEN
    /\ last.op = "can_execute" /\ last.provider = Driven
    /\ last.pre.state = OPEN
    /\ ~last.result

\* C2 as stated: a can_execute on an Open breaker whose last failure was at t0
\* returns false and stays Open at every t < t0 + recovery_timeout, and at
\* every t >= t0 + recovery_timeout moves to HalfOpen with the probe counter 0
\* and returns true.
C2_AsStated ==
    (last.op = "can_execute" /\ last.pre.state = OPEN
        /\ last.pre.last_failure_time # NoTime) =>
        LET b == circuit_breakers[last.provider]
            t0 == last.pre.last_failure_time
        IN  IF last.time < t0 + RecoveryTimeout
            THEN ~last.result /\ b = last.pre
            ELSE last.result /\ b.state = HALF_OPEN /\ b.half_open_calls = 0

\* C2 amended: the same with the boundary on the other side: refused at every
\* t <= t0 + recovery_timeout, admitted (HalfOpen, probe counter 0) at the
\* first can_execute made at a time t > t0 + recovery_timeout.
C2_StrictlyAfterTimeout ==
    (last.op = "can_execute" /\ last.pre.state = OPEN
        /\ last.pre.last_failure_time # NoTime) =>
        LET b == circuit_breakers[last.provider]
            t0 == last.pre.last_failure_time
        IN  IF last.time <= t0 + RecoveryTimeout
            THEN ~last.result /\ b = last.pre
            ELSE /\ last.result
                 /\ b = [last.pre EXCEPT !.state = HALF_OPEN, !.half_open_calls = 0]

\* C2 witness: an Open breaker with probes counted in an earlier HalfOpen
\* period is asked after the timeout and becomes HalfOpen.
C2_Witness ==
    /\ last.op = "can_execute"
    /\ last.pre.state = OPEN
    /\ last.pre.half_open_calls > 0
    /\ last.time > last.pre.last_failure_time + RecoveryTimeout
    /\ last.result
    /\ circuit_breakers[last.provider].state = HALF_OPEN

\* C3: after entering HalfOpen, the first half_open_max_calls - 1 consecutive
\* record_success calls leave the breaker HalfOpen and the
\* half_open_max_calls-th leaves it Closed with failure_count,
\* consecutive_failures and half_open_calls 0.
C3_ClosesAfterProbes ==
    \A p \in Providers :
        LET b == circuit_breakers[p]
        IN  /\ (probes[p] >= 0 /\ probes[p] < HalfOpenMaxCalls) =>
                    b.state = HALF_OPEN
            /\ probes[p] = HalfOpenMaxCalls =>
                    /\ b.state = CLOSED
                    /\ b.failure_count = 0
                    /\ b.consecutive_failures = 0
                    /\ b.half_open_calls = 0

\* C3 witness: the half_open_max_calls-th success has just closed the breaker.
C3_Witness ==
    /\ probes[Driven] = HalfOpenMaxCalls
    /\ last.op = "record_success"
    /\ last.pre.state = HALF_OPEN
    /\ last.pre.failure_count >= FailureThreshold
    /\ circuit_breakers[Driven].state = CLOSED

\* C4: a record_failure on a HalfOpen breaker leaves it Open with
\* last_failure_time the time of the call, whatever half_open_calls was, and a
\* can_execute made before recovery_timeout has elapsed returns false.
C4_HalfOpenFailureTrips ==
    (last_record.op = "record_failure" /\ last_record.pre.state = HALF_OPEN) =>
        LET b == circuit_breakers[last_record.provider]
        IN  /\ last.op = "record_failure" =>
                    b.state = OPEN /\ b.last_failure_time = last.time
            /\ (last.op = "can_execute"
                    /\ last.time - last_record.time < RecoveryTimeout) =>
                    ~last.result /\ b.state = OPEN

\* C4 witness: the failure came after half_open_max_calls - 1 probe successes
\* and the can_execute that followed was refused.
C4_Witness ==
    /\ last_record.op = "record_failure"
    /\ last_record.pre.state = HALF_OPEN
    /\ last_record.pre.half_open_calls = HalfOpenMaxCalls - 1
    /\ last_record.pre.half_open_calls > 0
    /\ last.op = "can_execute"
    /\ last.time - last_record.time < RecoveryTimeout
    /\ ~last.result

\* the fields of a breaker that admission and the state machine are said to
\* depend on
Core(b) ==
    [ state |-> b.state,
      failure_count |-> b.failure_count,
      consecutive_failures |-> b.consecutive_failures,
      half_open_calls |-> b.half_open_calls,
      last_failure_time |-> b.last_failure_time ]

\* sliding-window contents at time t: empty, one entry, or an old and a new
\* entry
Windows(t) ==
    {<< >>} \cup {<<<<t, f>>>> : f \in BOOLEAN}
            \cup {<<<<0, f>>, <<t, g>>>> : f, g \in BOOLEAN}

\* C25: a breaker and any breaker that differs from it in the sliding window
\* only give the same can_execute() result and are left with the same state,
\* failure counters, probe counter and last_failure_time by can_execute,
\* record_success and record_failure called at the same time; so they stay
\* alike along every sequence of such calls.
C25_WindowDoesNotDrive ==
    \A p \in Providers : \A w \in Windows(now) :
        LET b == circuit_breakers[p]
            v == [b EXCEPT !.failure_rate_window = w]
        IN  /\ can_execute(v, now).result = can_execute(b, now).result
            /\ Core(can_execute(v, now).b) = Core(can_execute(b, now).b)
            /\ Core(record_success(v, now)) = Core(record_success(b, now))
            /\ Core(record_failure(v, now)) = Core(record_failure(b, now))

\* C25 witness: a Closed breaker is tripped by a record_failure while its
\* window holds a success, so the failure rate in the window is below 1.
C25_Witness ==
    /\ last.op = "record_failure"
    /\ last.pre.state = CLOSED
    /\ circuit_breakers[last.provider].state = OPEN
    /\ \E i \in 1..Len(circuit_breakers[last.provider].failure_rate_window) :
          ~circuit_breakers[last.provider].failure_rate_window[i][2]

\* C27: can_execute() leaves the breaker as it was, except that on an Open
\* breaker whose recovery timeout has elapsed it sets the state to HalfOpen
\* and the probe counter to 0, and nothing else: failure counters, lifetime
\* counters, timestamps and sliding window are never changed.
C27_CanExecuteFrame ==
    last.op = "can_execute" =>
        LET pre == last.pre
            b == circuit_breakers[last.provider]
        IN  IF pre.state = OPEN /\ last.result
            THEN b = [pre EXCEPT !.state = HALF_OPEN, !.half_open_calls = 0]
            ELSE b = pre

\* C27 witness: can_execute() moved an Open breaker whose probe counter was
\* not 0 to HalfOpen.
C27_Witness ==
    /\ last.op = "can_execute"
    /\ last.pre.state = OPEN
    /\ last.pre.half_open_calls > 0
    /\ circuit_breakers[last.provider].state = HALF_OPEN

\* C28: with can_execute, record_success and record_failure calls only, a
\* breaker changes state along Closed -> Open, Open -> HalfOpen,
\* HalfOpen -> Closed and HalfOpen -> Open, and no other way.
C28_Transitions ==
    [][\A p \in Providers :
          circuit_breakers'[p].state # circuit_breakers[p].state =>
              <<circuit_breakers[p].state, circuit_breakers'[p].state>> \in
                  {<<CLOSED, OPEN>>, <<OPEN, HALF_OPEN>>,
                   <<HALF_OPEN, CLOSED>>, <<HALF_OPEN, OPEN>>}]_vars

\* C28 witness: a breaker that was tripped and has been through HalfOpen is
\* closed by the last probe success.
C28_Witness ==
    /\ last.op = "record_success"
    /\ last.pre.state = HALF_OPEN
    /\ last.pre.last_failure_time # NoTime
    /\ circuit_breakers[last.provider].state = CLOSED

\* ------------------------------------------------ claims on generate_text

\* the number of requests a call has sent to provider p
Invocations(call, p) ==
    Cardinality({i \in 1..Len(call.invoked) : call.invoked[i] = p})

\* the elements of a sequence
Range(q) == {q[i] : i \in 1..Len(q)}

\* the position of provider p in the fallback chain
Position(p) == CHOOSE i \in 1..Len(fallback_chain) : fallback_chain[i] = p

\* C5: a provider whose breaker refused the call (can_execute false) is sent no
\* request in that call, is not among the attempted providers, keeps its
\* breaker and its health record as they were when the call started, and the
\* call has gone on to the provider after it in the chain.
C5_RefusedProviderUntouched ==
    \A c \in Calls : \A p \in Range(calls[c].skipped) :
        /\ Invocations(calls[c], p) = 0
        /\ p \notin Range(calls[c].attempted_providers)
        /\ circuit_breakers[p] = calls[c].breakers0[p]
        /\ provider_health[p] = calls[c].health0[p]
        /\ ~can_execute(calls[c].breakers0[p], calls[c].started).result
        /\ calls[c].it >= Position(p)
        /\ Position(p) < Len(fallback_chain) =>
              fallback_chain[Position(p) + 1] \in
                  Range(calls[c].skipped) \cup Range(calls[c].attempted_providers)

\* C5 witness: the first provider was refused (Open, timeout not elapsed) and
\* the call was answered by the second.
C5_Witness ==
    /\ calls["c1"].skipped = <<fallback_chain[1]>>
    /\ circuit_breakers[fallback_chain[1]].state = OPEN
    /\ calls["c1"].pc = "returned"
    /\ calls["c1"].response = fallback_chain[2]

\* C6: once a request has succeeded the call has returned that provider's
\* response: the success is the last request made, record_success was called
\* exactly once and on that provider, and every provider later in the chain
\* was sent nothing and has its breaker and health record as at the start.
C6_ReturnsOnFirstSuccess ==
    \A c \in Calls :
        LET call == calls[c]
            succ == {i \in 1..Len(call.records) :
                        call.records[i][2] = "record_success"}
        IN  /\ (succ # {} \/ call.last_answer = "ok") =>
                /\ call.pc = "returned"
                /\ call.last_answer = "ok"
                /\ call.response = call.invoked[Len(call.invoked)]
                /\ call.response = call.provider
                /\ succ = {Len(call.records)}
                /\ call.records[Len(call.records)][1] = call.response
                /\ \A q \in Providers :
                      Position(q) > Position(call.response) =>
                          /\ Invocations(call, q) = 0
                          /\ circuit_breakers[q] = call.breakers0[q]
                          /\ provider_health[q] = call.health0[q]
            /\ call.pc = "returned" => succ # {}

\* C6 witness: the first provider answered on a retry and the second provider
\* was never asked.
C6_Witness ==
    /\ calls["c1"].pc = "returned"
    /\ calls["c1"].response = fallback_chain[1]
    /\ Len(calls["c1"].invoked) > 1
    /\ Invocations(calls["c1"], fallback_chain[2]) = 0

\* C7: with the first provider A Closed at failure_count 0, every call whose
\* attempts on A all fail with an LLMError records exactly one failure on A's
\* breaker whatever the number of attempts; after failure_threshold such calls
\* in a row the breaker is Open, and a call started before recovery_timeout
\* has elapsed sends A nothing and returns B's response when B succeeds.
C7_TransientCallsTrip ==
    LET A == fallback_chain[1]
        B == fallback_chain[2]
        b == circuit_breakers[A]
        call == calls["c1"]
        b0 == call.breakers0[A]
    IN  /\ (transient_calls >= 0 /\ transient_calls < FailureThreshold) =>
                b.state = CLOSED /\ b.failure_count = transient_calls
        /\ (call.transient_calls0 >= 0
                /\ transient_calls = call.transient_calls0 + 1) =>
                /\ b.total_requests = b0.total_requests + 1
                /\ b.failure_count = b0.failure_count + 1
                /\ Cardinality({i \in 1..Len(call.records) :
                                    call.records[i][1] = A}) = 1
                /\ Invocations(call, A) = retry_limit + 1
        /\ (transient_calls = FailureThreshold
                /\ call.transient_calls0 = FailureThreshold - 1) =>
                b.state = OPEN
        /\ (call.transient_calls0 = FailureThreshold
                /\ call.started - b0.last_failure_time < RecoveryTimeout) =>
                /\ Invocations(call, A) = 0
                /\ b = b0
                /\ (call.last_answer = "ok" /\ call.provider = B) =>
                        call.pc = "returned" /\ call.response = B

\* C7 witness: the call after failure_threshold failed calls skipped A and
\* returned B's response.
C7_Witness ==
    /\ calls["c1"].transient_calls0 = FailureThreshold
    /\ calls["c1"].started
          - calls["c1"].breakers0[fallback_chain[1]].last_failure_time
          < RecoveryTimeout
    /\ calls["c1"].skipped = <<fallback_chain[1]>>
    /\ calls["c1"].pc = "returned"
    /\ calls["c1"].response = fallback_chain[2]

\* the call is done with provider p
DoneWith(call, p) ==
    p \in Range(call.attempted_providers)
        /\ (call.pc \in {"returned", "raised"} \/ call.provider # p)

\* C8: when a provider answers a request of the call with InvalidAPIKey, the
\* call leaves that provider with its breaker as it was (only the admission's
\* own Open -> HalfOpen step made), its health status Failed, and goes on to
\* the next provider.
C8_AuthFailureLeavesBreaker ==
    \A c \in Calls : \A p \in calls[c].auth_answered :
        LET call == calls[c]
            b0 == call.breakers0[p]
            admitted == IF b0.state = OPEN
                        THEN [b0 EXCEPT !.state = HALF_OPEN, !.half_open_calls = 0]
                        ELSE b0
        IN  DoneWith(call, p) =>
                /\ circuit_breakers[p] = admitted
                /\ provider_health[p].status = FAILED
                /\ call.response # p

\* C9: after a request is answered with InvalidAPIKey the call neither sleeps
\* a backoff delay nor sends that provider another request.
C9_AuthFailureNotRetried ==
    \A c \in Calls :
        calls[c].last_answer = "auth" =>
            /\ calls[c].pc # "sleep"
            /\ ~(calls[c].pc = "request" /\ calls[c].attempt > 0)

\* C10: a call sends any one provider at most
\* min(provider.max_retries, retry_config.max_attempts) requests.
C10_AttemptsCapped ==
    \A c \in Calls : \A p \in Providers :
        Invocations(calls[c], p) <= retry_limit

\* the attempt indices of the backoff sleeps the call made on provider p
SleepsOn(call, p) ==
    LET on == SelectSeq(call.sleeps, LAMBDA e : e[1] = p)
    IN  [i \in 1..Len(on) |-> on[i][2]]

\* every attempt of the call on provider p failed with an LLMError and the
\* call has gone on
FailedTransiently(call, p) ==
    /\ DoneWith(call, p)
    /\ p \notin call.auth_answered
    /\ <<p, "record_failure">> \in Range(call.records)

\* C11: a call whose attempts on a provider all fail transiently sleeps, on
\* that provider, once less than the attempt cap
\* M = min(provider.max_retries, retry_config.max_attempts): the sleeps are
\* those for the attempt indices 0 .. M-2, of base_delay * multiplier^index
\* before jitter, and none follows the last failed attempt.
C11_SleepsBetweenAttempts ==
    \A c \in Calls : \A p \in Providers :
        FailedTransiently(calls[c], p) =>
            /\ SleepsOn(calls[c], p) = [i \in 1..(retry_limit - 1) |-> i - 1]
            /\ \A i \in 1..Len(SleepsOn(calls[c], p)) :
                  _calculate_backoff_delay(SleepsOn(calls[c], p)[i], 0)
                      = base_delay * Power(backoff_multiplier, i - 1)

\* the providers of the chain that are not in the sequence q, in chain order
ChainWithout(q) == SelectSeq(fallback_chain, LAMBDA p : p \notin Range(q))

\* C12: a call that has ended has returned a response or raised the aggregate
\* error, never both; the aggregate error is raised at the end of the chain
\* only, when every provider was refused by its breaker or failed its last
\* attempt, and it carries the providers admitted, in chain order, and the
\* error of the last of them.
C12_ReturnsOrAggregateError ==
    \A c \in Calls :
        LET call == calls[c]
        IN  /\ call.pc \in {"idle", "request", "sleep", "returned", "raised"}
            /\ call.pc = "returned" =>
                  call.response \in Providers /\ call.last_answer = "ok"
            /\ call.pc = "raised" =>
                  /\ call.response = "none"
                  /\ call.last_answer # "ok"
                  /\ call.it = Len(fallback_chain)
                  /\ \A p \in Providers :
                        \/ p \in Range(call.skipped)
                        \/ /\ p \in Range(call.attempted_providers)
                           /\ Invocations(call, p) = retry_limit + 1
                  /\ call.attempted_providers = ChainWithout(call.skipped)
                  /\ IF call.attempted_providers = << >>
                     THEN call.last_error = NoError
                     ELSE /\ call.last_error.provider =
                                call.attempted_providers[
                                    Len(call.attempted_providers)]
                          /\ call.last_error.kind = call.last_answer

\* C12 witness: the first provider was refused, the second answered every
\* attempt with an authentication failure, and the aggregate error was raised.
C12_Witness ==
    /\ calls["c1"].pc = "raised"
    /\ calls["c1"].skipped = <<fallback_chain[1]>>
    /\ calls["c1"].attempted_providers = <<fallback_chain[2]>>
    /\ calls["c1"].last_error = [kind |-> "auth", provider |-> fallback_chain[2]]

\* C17: the requests of a call go down the fallback chain: the providers are
\* taken in chain order, each one once, all the requests to a provider are in
\* a row, and a request goes to the next provider only after the call is done
\* with the one before (so only the last provider invoked can be in flight).
C17_ChainOrder ==
    \A c \in Calls :
        LET call == calls[c]
            inv == call.invoked
            att == call.attempted_providers
        IN  /\ \A i, j \in 1..Len(inv) :
                  i < j => Position(inv[i]) <= Position(inv[j])
            /\ \A i, j \in 1..Len(att) :
                  i < j => Position(att[i]) < Position(att[j])
            /\ Range(att) = Range(inv)
            /\ \A i \in 1..Len(inv) :
                  (i < Len(inv) /\ inv[i] # inv[Len(inv)]) =>
                      \/ inv[i] \in call.auth_answered
                      \/ <<inv[i], "record_failure">> \in Range(call.records)
            /\ call.pc \in {"request", "sleep"} =>
                  call.provider = inv[Len(inv)]

\* C17 witness: both providers were sent all their attempts, the first before
\* the second.
C17_Witness ==
    /\ calls["c1"].invoked =
          [i \in 1..(2 * (retry_limit + 1)) |->
              IF i <= retry_limit + 1 THEN fallback_chain[1]
              ELSE fallback_chain[2]]
    /\ calls["c1"].pc = "raised"

\* C13: between the entry of a breaker into HalfOpen and its next transition
\* out of HalfOpen, can_execute() answers true at most half_open_max_calls
\* times.
C13_ProbesBounded ==
    \A p \in Providers : admissions[p] <= HalfOpenMaxCalls

\* C15: with switch_provider running while a generate_text call is in flight,
\* the call goes down one chain, the one before the switch or the one after:
\* it attempts no provider twice, and when it raises the aggregate error every
\* provider was either attempted or refused by its breaker.
C15_SingleChain ==
    \A c \in Calls :
        LET att == calls[c].attempted_providers
        IN  /\ \A i, j \in 1..Len(att) : i # j => att[i] # att[j]
            /\ calls[c].pc = "raised" =>
                  \A p \in Providers :
                      p \in Range(att) \/ p \in Range(calls[c].skipped)

\* the calls that add a record_success or record_failure (kind) on the breaker
\* of p in a step
Recording(p, kind) ==
    {c \in Calls :
        /\ Len(calls'[c].records) = Len(calls[c].records) + 1
        /\ calls'[c].records[Len(calls'[c].records)] = <<p, kind>>}

\* C14: with generate_text calls running concurrently on the same providers,
\* every record_failure() and record_success() a call makes is counted: it
\* raises total_requests by one, a success raises success_count by one, and a
\* failure raises consecutive_failures by one over the value the update before
\* it left, whichever call made that update.
C14_NoLostUpdate ==
    [][\A p \in Providers :
          LET k == Cardinality(Recording(p, "record_failure"))
              m == Cardinality(Recording(p, "record_success"))
              b == circuit_breakers[p]
          IN  /\ circuit_breakers'[p].total_requests =
                    b.total_requests + k + m
              /\ circuit_breakers'[p].success_count = b.success_count + m
              /\ k = 1 =>
                    circuit_breakers'[p].consecutive_failures =
                        b.consecutive_failures + 1
              /\ (k = 0 /\ m = 0) =>
                    circuit_breakers'[p].consecutive_failures =
                        b.consecutive_failures]_vars

\* C14 witness: two calls in flight at once have each recorded a failure on
\* the primary provider, and its breaker counts both.
C14_Witness ==
    /\ \A c \in Calls :
          /\ calls[c].pc \in {"request", "sleep"}
          /\ <<fallback_chain[1], "record_failure">> \in Range(calls[c].records)
    /\ circuit_breakers[fallback_chain[1]].consecutive_failures = 2
    /\ circuit_breakers[fallback_chain[1]].total_requests = 2

\* C16: a call cancelled while a provider request or a retry sleep is pending
\* ends there: the cancellation records nothing on any breaker and changes no
\* health entry, and the cancelled call makes no further request, sleep or
\* record.
C16_CancelledCallStops ==
    [][\A c \in Calls :
          /\ (~calls[c].cancel_requested /\ calls'[c].cancel_requested) =>
                /\ calls[c].pc \in {"request", "sleep"}
                /\ calls'[c] = [calls[c] EXCEPT !.pc = "cancelled",
                                                !.cancel_requested = TRUE]
                /\ circuit_breakers' = circuit_breakers
                /\ provider_health' = provider_health
          /\ (calls[c].cancel_requested /\ calls'[c].cancel_requested) =>
                calls'[c] = calls[c]]_vars

\* C16 witness: a call cancelled during its first retry sleep, with nothing
\* recorded on the breaker of the provider it was on.
C16_Witness ==
    /\ calls["c1"].pc = "cancelled"
    /\ Len(calls["c1"].sleeps) = 1
    /\ Len(calls["c1"].invoked) = 1
    /\ calls["c1"].records = << >>
    /\ circuit_breakers[calls["c1"].provider].total_requests = 0

\* C18: whatever generate_text calls, health checks, force_recovery_attempt,
\* reset_circuit_breaker and switch_provider have run, a breaker that is Open
\* has a last_failure_time.
C18_OpenHasFailureTime ==
    \A p \in Providers :
        circuit_breakers[p].state = OPEN =>
            circuit_breakers[p].last_failure_time # NoTime

\* C18 witness: a force_recovery_attempt on an Open breaker failed its
\* validation and put the breaker back to Open.
C18_Witness ==
    \E o \in Operators :
        /\ ops[o].pc = "done"
        /\ ops[o].kind = "force_recovery_attempt"
        /\ ops[o].original_state = OPEN
        /\ ops[o].result = FALSE
        /\ circuit_breakers[ops[o].provider].state = OPEN

\* C19: whatever generate_text calls and operator actions have run, a breaker
\* that is HalfOpen has a half_open_calls of at most half_open_max_calls.
C19_HalfOpenCounterBounded ==
    \A p \in Providers :
        circuit_breakers[p].state = HALF_OPEN =>
            circuit_breakers[p].half_open_calls <= HalfOpenMaxCalls

\* C19 witness: a breaker put in HalfOpen by a successful
\* force_recovery_attempt has counted all its probes but one.
C19_Witness ==
    \E o \in Operators :
        /\ ops[o].pc = "done"
        /\ ops[o].kind = "force_recovery_attempt"
        /\ ops[o].result = TRUE
        /\ circuit_breakers[ops[o].provider].state = HALF_OPEN
        /\ circuit_breakers[ops[o].provider].half_open_calls
              = HalfOpenMaxCalls - 1

\* C20: of two health reads in a row (check_provider_health,
\* get_all_provider_health or get_circuit_breaker_metrics), with no
\* generate_text call and no operator action in between, the second reports
\* for every provider the breaker state and the failure rate the first
\* reported, and the reads leave every breaker as it was: state, counters and
\* sliding window.
C20_ReadsArePure ==
    /\ reads.runs >= 0 => circuit_breakers = reads.cbs
    /\ reads.runs >= 2 =>
          \A p \in (DOMAIN reads.prev) \cap (DOMAIN reads.cur) :
              reads.prev[p] = reads.cur[p]

\* C20 witness: two reads in a row have reported on an Open breaker with
\* failures in its window, and a validation request was answered in between.
C20_Witness ==
    /\ reads.runs >= 2
    /\ \E p \in (DOMAIN reads.prev) \cap (DOMAIN reads.cur) :
          /\ reads.cur[p][1] = OPEN
          /\ reads.cur[p] # MetricsReport([q \in Providers |-> CircuitBreaker])[p]
          /\ provider_health[p].last_check > 0
          /\ provider_health[p].status = HEALTHY

\* the providers of the chain whose breaker, in cbs, admits at time t
Admitting(cbs, t) ==
    SelectSeq(fallback_chain, LAMBDA p : can_execute(cbs[p], t).result)

\* C21: get_available_providers returns the providers of the chain whose
\* breaker admits, in chain order, and changes the state and the counters of
\* no breaker, whatever the state of the breakers (an Open breaker whose
\* recovery timeout has elapsed included).
C21_AvailableIsReadOnly ==
    last_op.kind = "get_available_providers" =>
        /\ last_op.available = Admitting(last_op.cbs0, last_op.time)
        /\ circuit_breakers = last_op.cbs0

\* C22: the health records handed to the caller of check_provider_health or
\* get_all_provider_health keep the values they had when they were handed,
\* whatever generate_text calls, health checks and reset_circuit_breaker do
\* afterwards.
C22_HandedRecordIsCopy ==
    \A p \in held.refs : provider_health[p] = held.seen[p]

\* C29: reset_circuit_breaker(p) on a configured provider returns true and
\* leaves the breaker of p Closed with failure_count, consecutive_failures
\* and half_open_calls 0 and everything else in it as it was, so that
\* can_execute() is true, the health record of p Healthy and not degraded,
\* and the breaker and health record of every other provider unchanged; on an
\* unknown provider it returns false and changes nothing.
C29_ResetCloses ==
    last_op.kind = "reset_circuit_breaker" =>
        LET p == last_op.provider
        IN  IF p \in Providers
            THEN /\ last_op.returned
                 /\ circuit_breakers[p] =
                       [last_op.cbs0[p] EXCEPT !.state = CLOSED,
                                               !.failure_count = 0,
                                               !.consecutive_failures = 0,
                                               !.half_open_calls = 0]
                 /\ can_execute(circuit_breakers[p], now).result
                 /\ provider_health[p].status = HEALTHY
                 /\ ~provider_health[p].is_degraded
                 /\ \A q \in Providers \ {p} :
                       /\ circuit_breakers[q] = last_op.cbs0[q]
                       /\ provider_health[q] = last_op.hs0[q]
            ELSE /\ ~last_op.returned
                 /\ circuit_breakers = last_op.cbs0
                 /\ provider_health = last_op.hs0

\* C29 witness: an Open breaker with failures counted was reset while the
\* breaker of the other provider was not Closed.
C29_Witness ==
    /\ last_op.kind = "reset_circuit_breaker"
    /\ last_op.provider \in Providers
    /\ last_op.cbs0[last_op.provider].state = OPEN
    /\ last_op.cbs0[last_op.provider].failure_count > 0
    /\ circuit_breakers[last_op.provider].total_requests > 0
    /\ \E q \in Providers \ {last_op.provider} :
          circuit_breakers[q].state # CLOSED

\* C30: a force_recovery_attempt(p) whose validation failed, with nothing
\* else running meanwhile, returns false and leaves the breaker of p with the
\* state, the failure counters and the probe counter it had before; on an
\* unknown provider it returns false and changes nothing.
C30_FailedAttemptRestores ==
    (last_op.kind = "force_recovery_attempt" /\ last_op.done
            /\ ~last_op.returned) =>
        LET p == last_op.provider
        IN  IF p \in Providers
            THEN Core(circuit_breakers[p]) = Core(last_op.cbs0[p])
            ELSE /\ circuit_breakers = last_op.cbs0
                 /\ provider_health = last_op.hs0

\* the providers whose API key, in the settings the service was built from,
\* is a usable credential: a string that is not empty (white space apart) and
\* is not a "your_..." placeholder
UsableCredentials ==
    {p \in Requested :
        LET key == build.keys[p]
        IN  /\ ~key.none
            /\ \E i \in 1..Len(key.text) : key.text[i] # " "
            /\ key.text[1] # "your_"}

\* the sequence q is in ascending priority order from position i on
Ascending(q, i) ==
    \A j, k \in i..Len(q) : j < k => priority(q[j]) < priority(q[k])

\* C23: the fallback chain a service is constructed with holds each configured
\* provider once; the primary provider asked for, when it is configured, comes
\* first and the others follow in ascending priority order; when it is not
\* configured the whole chain is in ascending priority order.
C23_ChainAtConstruction ==
    build.status = "ready" =>
        LET chain == build.chain0
            configured == DOMAIN circuit_breakers
        IN  /\ Len(chain) = Cardinality(configured)
            /\ Range(chain) = configured
            /\ IF build.primary \in configured
               THEN chain[1] = build.primary /\ Ascending(chain, 2)
               ELSE Ascending(chain, 1)

\* C23 witness: three providers are configured and the primary provider asked
\* for is the one of lowest priority.
C23_Witness ==
    /\ build.status = "ready"
    /\ Len(build.chain0) = 3
    /\ build.primary = build.chain0[1]
    /\ \A p \in Requested : priority(p) <= priority(build.primary)

\* C24: the providers with a breaker, with a health record and in the chain
\* are the providers with a usable credential, the chain holding each once;
\* the construction fails when no credential is usable; and this stays so,
\* with at least one provider, whatever generate_text, switch_provider,
\* force_recovery_attempt and reset_circuit_breaker calls are made.
C24_CatalogIsUsableCredentials ==
    /\ build.status = "failed" => UsableCredentials = {}
    /\ build.status = "ready" =>
          /\ UsableCredentials # {}
          /\ DOMAIN circuit_breakers = UsableCredentials
          /\ DOMAIN provider_health = UsableCredentials
          /\ Range(fallback_chain) = UsableCredentials
          /\ Len(fallback_chain) = Cardinality(UsableCredentials)

\* C24 witness: one key is a placeholder, a switch_provider has changed the
\* chain the service was constructed with, and a generate_text call has ended.
C24_Witness ==
    /\ build.status = "ready"
    /\ \E p \in Requested : build.keys[p] = Key(<<"your_", "k">>)
    /\ fallback_chain # build.chain0
    /\ calls["c1"].pc \in {"returned", "raised"}

\* the smaller of two numbers
Min(a, b) == IF a < b THEN a ELSE b

\* base_delay * backoff_multiplier^attempt capped at max_delay
Capped(retry_config, attempt) ==
    Min(retry_config.base_delay
            * Power(retry_config.backoff_multiplier, attempt),
        retry_config.max_delay)

\* C26: with jitter off, _calculate_backoff_delay(attempt) is
\* min(base_delay * backoff_multiplier^attempt, max_delay), hence at most
\* max_delay and, the multiplier being at least 1, at least the delay of the
\* attempt before; with jitter on it lies between 1.1 and 1.3 times that
\* capped value.
C26_BackoffDelay ==
    backoff.delay # -1 =>
        LET capped == Capped(backoff.retry_config, backoff.attempt)
        IN  IF backoff.jitter = 0
            THEN /\ backoff.delay = capped
                 /\ backoff.delay <= backoff.retry_config.max_delay
                 /\ backoff.attempt > 0 =>
                       backoff.delay >=
                           Capped(backoff.retry_config, backoff.attempt - 1)
            ELSE /\ 100 * backoff.delay >= 110 * capped
                 /\ 100 * backoff.delay <= 130 * capped

\* C26 witness: a delay with jitter computed for an attempt whose exponential
\* delay is over max_delay.
C26_Witness ==
    /\ backoff.delay # -1
    /\ backoff.jitter > 0
    /\ backoff.retry_config.base_delay
            * Power(backoff.retry_config.backoff_multiplier, backoff.attempt)
          > backoff.retry_config.max_delay
    /\ backoff.delay > backoff.retry_config.max_delay

\* C31: a force_recovery_attempt(p) made on a Closed breaker, with nothing
\* else running meanwhile, leaves the breaker Closed when it returns, whether
\* the validation succeeded or failed.
C31_ForcedAttemptIsTemporary ==
    (/\ last_op.kind = "force_recovery_attempt"
     /\ last_op.done
     /\ last_op.provider \in DOMAIN circuit_breakers
     /\ last_op.cbs0[last_op.provider].state = CLOSED) =>
        circuit_breakers[last_op.provider].state = CLOSED

\* C32: whatever generate_text calls and health checks were made, a provider
\* whose health record has the status Healthy has a Closed breaker; a
\* provider whose breaker is Open is not reported Healthy.
C32_HealthyOnlyIfClosed ==
    \A p \in DOMAIN provider_health :
        provider_health[p].status = HEALTHY =>
            circuit_breakers[p].state = CLOSED

\* C33: when a generate_text call has completed, the circuit-breaker state
\* kept in the health record of every provider is the state of that
\* provider's breaker.
C33_RecordedBreakerState ==
    calls["c1"].pc \in {"returned", "raised"} =>
        \A p \in DOMAIN provider_health :
            provider_health[p].circuit_breaker_state
                = circuit_breakers[p].state

\* C34: success_count and total_requests of a breaker never decrease,
\* whatever is done to the breaker (the reset that closes a HalfOpen breaker,
\* reset_circuit_breaker and force_recovery_attempt included), and
\* success_count is at most total_requests in every reachable state.
C34_CountersMonotonic ==
    /\ [](\A p \in Providers :
            circuit_breakers[p].success_count
                <= circuit_breakers[p].total_requests)
    /\ [][\A p \in Providers :
            /\ circuit_breakers'[p].success_count
                  >= circuit_breakers[p].success_count
            /\ circuit_breakers'[p].total_requests
                  >= circuit_breakers[p].total_requests]_vars

\* C34 witness: after two operator actions, the last one a
\* force_recovery_attempt, a breaker that has recorded a failure was
\* HalfOpen and was closed, its counters kept, by a probe success.
C34_Witness ==
    \E o \in Operators :
        /\ ops[o].pc = "done"
        /\ ops[o].kind = "force_recovery_attempt"
        /\ last_record.op = "record_success"
        /\ last_record.provider = ops[o].provider
        /\ last_record.pre.state = HALF_OPEN
        /\ circuit_breakers[ops[o].provider].state = CLOSED
        /\ circuit_breakers[ops[o].provider].success_count
              = last_record.pre.success_count + 1
        /\ circuit_breakers[ops[o].provider].total_requests
              > circuit_breakers[ops[o].provider].success_count

\* C35: every generate_text call terminates, with a response or with the
\* aggregate error, when every provider request is answered and every backoff
\* sleep returns, whatever the breaker states and the answers, and whatever
\* switch_provider and other generate_text calls run meanwhile.
C35_CallTerminates ==
    \A c \in Calls :
        (calls[c].pc \in {"request", "sleep"})
            ~> (calls[c].pc \in {"returned", "raised"})

\* C35 witness: a call has ended with the aggregate error after a
\* switch_provider moved the chain under it, so that it sent requests to the
\* same provider from two positions of the chain, while the other call was
\* waiting for its provider.
C35_Witness ==
    \E c, d \in Calls :
        /\ c # d
        /\ calls[c].pc = "raised"
        /\ Len(calls[c].attempted_providers) = 2
        /\ calls[c].attempted_providers[1] = calls[c].attempted_providers[2]
        /\ calls[d].pc \in {"request", "sleep"}
        /\ \E o \in Operators :
              /\ ops[o].pc = "done"
              /\ ops[o].kind = "switch_provider"
              /\ ops[o].result = TRUE

\* C36: an Open breaker is not locked out: when time keeps advancing,
\* admission checks keep being made and every call recorded after the trip is
\* a success, the breaker reaches HalfOpen, and from HalfOpen it reaches
\* Closed.
C36_OpenRecovers ==
    /\ (circuit_breakers[Driven].state = OPEN)
          ~> (circuit_breakers[Driven].state = HALF_OPEN)
    /\ (circuit_breakers[Driven].state = HALF_OPEN)
          ~> (circuit_breakers[Driven].state = CLOSED)

\* C36 witness: a breaker tripped by failure_threshold failures was closed by
\* the last of its probe successes.
C36_Witness ==
    /\ circuit_breakers[Driven].state = CLOSED
    /\ circuit_breakers[Driven].last_failure_time # NoTime
    /\ last_record.op = "record_success"
    /\ last_record.pre.state = HALF_OPEN
    /\ last_record.pre.half_open_calls = HalfOpenMaxCalls - 1
    /\ circuit_breakers[Driven].total_requests
          >= FailureThreshold + HalfOpenMaxCalls

\* C37: whatever generate_text calls, force_recovery_attempt and
\* reset_circuit_breaker calls have run, in whatever order, a Closed breaker
\* has a failure_count equal to its consecutive_failures and below
\* failure_threshold.
C37_ClosedCountsFailures ==
    \A p \in Providers :
        circuit_breakers[p].state = CLOSED =>
            /\ circuit_breakers[p].failure_count
                  = circuit_breakers[p].consecutive_failures
            /\ circuit_breakers[p].failure_count < FailureThreshold

\* ------------------------------------------------ claims on the rate limiter

\* the requests of the log q admitted at most a window before t
AdmittedInWindow(q, t) == Cardinality({i \in 1..Len(q) : t - q[i] <= window})

\* C38: of the requests of a user that allow_request admitted, at most
\* max_requests have their timestamps within any span of time_window
\* seconds; allow_request returns true exactly when fewer than max_requests
\* requests of the user were admitted in the last time_window seconds; and an
\* allow_request or a reset of one user leaves the answer to any other user,
\* now or later, as it was.
C38_RateLimit ==
    LET seen == limiter_seen.last
    IN  /\ \A u \in Users :
              LET q == limiter_seen.admitted[u]
              IN  \A i \in 1..Len(q) :
                      Cardinality({j \in i..Len(q) : q[j] - q[i] <= window})
                          <= max_requests
        /\ seen.op = "allow_request" =>
              (seen.result <=>
                  AdmittedInWindow(seen.admitted_before[seen.user], seen.time)
                      < max_requests)
        /\ (seen.op \in {"allow_request", "reset"} /\ seen.user # NoUser) =>
              \A v \in Users \ {seen.user} :
                  /\ user_requests[v] = seen.before[v]
                  /\ \A t \in seen.time..MaxLimiterTime :
                        allow_request(user_requests, v, t).result
                            = allow_request(seen.before, v, t).result

\* C38 witness: a user who was refused is admitted again once the window has
\* passed, while the other user has requests in the window.
C38_Witness ==
    LET seen == limiter_seen.last
    IN  /\ seen.op = "allow_request"
        /\ seen.result
        /\ seen.user \in limiter_seen.refused
        /\ Len(seen.before[seen.user]) = max_requests
        /\ \E v \in Users \ {seen.user} : user_requests[v] # << >>

\* C39: get_retry_after(user) is 0 whenever allow_request(user) would return
\* true at that moment; and when the user is rate limited, an
\* allow_request(user) made get_retry_after(user) seconds later, with no
\* other request of the user in between, returns true.
C39_RetryAfter ==
    LET seen == limiter_seen.last
    IN  seen.op = "get_retry_after" =>
            IF allow_request(seen.before, seen.user, seen.time).result
            THEN seen.value = 0
            ELSE allow_request(user_requests, seen.user,
                               seen.time + seen.value * TicksPerSecond).result

====
